---- MODULE Spec2Model ----
(***************************************************************************)
(* Checkout saga of dds25--team4-: the Stock and Payment participants, the *)
(* SagaManager engine with the orchestrator's step functions, the          *)
(* orchestrator's consumer callback and the Order request bridge.          *)
(***************************************************************************)
EXTENDS Integers, Sequences, FiniteSets, TLC

(***************************************************************************)
(* Bounds                                                                  *)
(***************************************************************************)
Corrs == {"c1", "c2"}
Workers == {"w1", "w2"}
ItemIds == {"i1", "i2", "i3"}
UserIds == {"u1", "u2"}

MaxCmds == 2
InitStock == 2
InitCredit == 2
MaxQty == 2
MaxEvents == 4
MaxMsgs == 4
MaxTries == 6

\* the item lists a stock command may carry: one item, two items, and a
\* list that names an item the store does not hold ("i3")
ItemLists ==
    { <<<<"i1", MaxQty>>>>, <<<<"i1", 1>>, <<"i2", MaxQty>>>>, <<<<"i2", 1>>, <<"i3", 1>>>> }

\* the (user, amount) pairs a payment command may carry; the store does not
\* hold "u2"
PayLoads == ({"u1"} \X (1..MaxQty)) \cup {<<"u2", 1>>}

(***************************************************************************)
(* Event types, src/common/kafka/events_config.py                          *)
(***************************************************************************)
EVENT_SUBTRACT_STOCK == "SubtractStock"
EVENT_ADD_STOCK == "AddStock"
EVENT_PAY == "Pay"
EVENT_REFUND == "Refund"
EVENT_CHECKOUT_REQUESTED == "CheckoutRequested"
EVENT_STOCK_SUBTRACTED == "StockSubtracted"
EVENT_STOCK_ERROR == "StockError"
EVENT_PAYMENT_SUCCESS == "PaymentProcessed"
EVENT_PAYMENT_ERROR == "PaymentError"
EVENT_CHECKOUT_SUCCESS == "CheckoutSuccess"
EVENT_CHECKOUT_FAILED == "CheckoutFailed"
EVENT_REFUND_SUCCESS == "RefundProcessed"
EVENT_REFUND_ERROR == "RefundError"
EVENT_STOCK_COMPENSATED == "StockCompensated"
EVENT_STOCK_COMPENSATION_FAILED == "StockCompensationFailed"


VARIABLES
    stockDb,      \* Stock store: item key -> [present, stock, ttl]
    stockIdem,    \* Stock store: idempotency key <<type, corr>> -> outcome
    stockTopic,   \* stock-operations: the command messages published
    stockW,       \* Stock consumers: position in handle_events
    stockLast,    \* stock-responses: the last handling and the outcome it sent
    userDb,       \* Payment store: user key -> [present, credit]
    payIdem,      \* Payment store: idempotency key <<type, corr>> -> outcome
    payTopic,     \* payment-operations: the command messages published
    payW,         \* Payment consumers: position in handle_event
    payLast,      \* payment-responses: the last handling and the outcome it sent
    ongoing_sagas,\* SagaManager.ongoing_sagas: correlation id -> saga instance
    orchOut,      \* the events the orchestrator's step functions sent, in order
    lastRun,      \* what the last run of a SagaManager / Saga coroutine did
    handled,      \* number of messages the orchestrator has been handed
    orderDb,      \* order service store: order id -> OrderValue
    bridge,       \* POST /checkout requests: correlation id -> state of the request
    orchTopic,    \* the CheckoutRequested events published for the orchestrator
    orchAcked,    \* the events whose offset the orchestrator's consumer committed
    stockReq,     \* stock-operations: the FindItem events add_item published
    orderTopic,   \* the events on the topics the order service consumes
    orderIdem,    \* order service store: idempotency key -> recorded event
    stream,       \* order service store: order_response:<correlation id> stream
    orderW,       \* order service consumers: position in handle_response_event
    published,    \* consumer loop: number of messages in the partition
    position,     \* consumer loop: offset of the next message the iterator yields
    committed,    \* consumer loop: offset committed for the group
    failed,       \* offsets whose handler raised and has not returned normally since
    redelivered,  \* offsets passed to the handler again after their handler raised
    rebalance_lock, \* KafkaConsumerSingleton._rebalance_lock: "free" or its holder
    loopPc,       \* _consume_events: "iterate", "acquire", "callback" or "commit"
    listenerPc,   \* on_partitions_revoked: "idle", "acquire" or "inside"
    assigned      \* the partition is assigned to this consumer

stockVars == <<stockDb, stockIdem, stockTopic, stockW, stockLast>>
payVars == <<userDb, payIdem, payTopic, payW, payLast>>
sagaVars == <<ongoing_sagas, orchOut, lastRun, handled>>
orderVars == <<orderDb, bridge, orchTopic, orchAcked, stockReq, orderTopic, orderIdem, stream, orderW>>
rebalanceVars == <<rebalance_lock, loopPc, listenerPc, assigned>>
consumerVars == <<published, position, committed, failed, redelivered, rebalanceVars>>

(***************************************************************************)
(* Stock participant, src/stock/app.py                                     *)
(***************************************************************************)
DB_ERROR_STR == "DB error"

\* max_retries of handle_pay_event and handle_refund_event
max_retries == 5

NoItem == [present |-> FALSE, stock |-> 0, ttl |-> FALSE]
NoStockEvent == [type |-> "none", corr |-> "none", items |-> <<>>, error |-> ""]
NoNewItems == [i \in {} |-> 0]
StockIdle == [pc |-> "idle", ev |-> NoStockEvent, new |-> NoNewItems, dirty |-> FALSE, tries |-> 0]
NoStockLast == [kind |-> "none", key |-> <<"none", "none">>, ev |-> NoStockEvent]

StockCmd(t, c, items) == [type |-> t, corr |-> c, items |-> items, error |-> ""]

ItemsOf(items) == { items[k][1] : k \in 1..Len(items) }

\* new_items[item_id] = item_entry
SetNewItem(new, id, v) == [i \in (DOMAIN new) \cup {id} |-> IF i = id THEN v ELSE new[i]]

\* remove_stock_event without the new_stock < 0 test
RECURSIVE RemoveScanUnchecked(_, _, _)
RemoveScanUnchecked(items, db, new) ==
    IF items = <<>> THEN [ok |-> TRUE, error |-> "", new |-> new]
    ELSE LET id == Head(items)[1]
             amount == Head(items)[2]
         IN  IF ~db[id].present
               THEN [ok |-> FALSE, error |-> "ITEM NOT FOUND", new |-> new]
             ELSE RemoveScanUnchecked(Tail(items), db, SetNewItem(new, id, db[id].stock - amount))

\* the read loop of remove_stock_event: the first missing or insufficient
\* item ends the command with an error, otherwise new_items is filled
RECURSIVE RemoveScan(_, _, _)
RemoveScan(items, db, new) ==
    IF items = <<>> THEN [ok |-> TRUE, error |-> "", new |-> new]
    ELSE LET id == Head(items)[1]
             amount == Head(items)[2]
         IN  IF ~db[id].present
               THEN [ok |-> FALSE, error |-> "ITEM NOT FOUND", new |-> new]
             ELSE IF db[id].stock - amount < 0
               THEN [ok |-> FALSE, error |-> "STOCK CANNOT GET REDUCED BELOW ZERO", new |-> new]
             ELSE RemoveScan(Tail(items), db, SetNewItem(new, id, db[id].stock - amount))

\* the read loop of add_stock_event: decoding a missing item raises
RECURSIVE AddScan(_, _, _)
AddScan(items, db, new) ==
    IF items = <<>> THEN [ok |-> TRUE, new |-> new]
    ELSE LET id == Head(items)[1]
             amount == Head(items)[2]
         IN  IF ~db[id].present
               THEN [ok |-> FALSE, new |-> new]
             ELSE AddScan(Tail(items), db, SetNewItem(new, id, db[id].stock + amount))

\* a write to the keys ks invalidates the WATCH of every other consumer
\* that watches one of them
StockTouch(W, w, ks) ==
    [x \in Workers |->
        IF x # w /\ W[x].pc = "exec" /\ ItemsOf(W[x].ev.items) \cap ks # {}
        THEN [W[x] EXCEPT !.dirty = TRUE] ELSE W[x]]

StockKey(m) == <<m.type, m.corr>>

\* a command is published on stock-operations (at most one per type and
\* correlation id: the payload of a transaction's command is fixed)
PublishStockCmd(t, c, items) ==
    /\ Cardinality(stockTopic) < MaxCmds
    /\ \A m \in stockTopic : StockKey(m) # <<t, c>>
    /\ stockTopic' = stockTopic \cup {StockCmd(t, c, items)}
    /\ UNCHANGED <<stockDb, stockIdem, stockW, stockLast>>

\* handle_events: the idempotency lookup; a recorded outcome is republished
StockReplay(w, m) ==
    /\ stockW[w].pc = "idle"
    /\ m \in stockTopic
    /\ StockKey(m) \in DOMAIN stockIdem
    /\ stockLast' = 
            [kind |-> "replay", key |-> StockKey(m), ev |-> stockIdem[StockKey(m)]]
    /\ UNCHANGED <<stockDb, stockIdem, stockTopic, stockW>>

\* handle_events: no record, the command handler is entered
StockReceive(w, m) ==
    /\ stockW[w].pc = "idle"
    /\ m \in stockTopic
    /\ StockKey(m) \notin DOMAIN stockIdem
    /\ stockW' = [stockW EXCEPT ![w] = [pc |-> "read", ev |-> m, new |-> NoNewItems, dirty |-> FALSE, tries |-> 1]]
    /\ UNCHANGED <<stockDb, stockIdem, stockTopic, stockLast>>

StockKeyOfW(w) == <<stockW[w].ev.type, stockW[w].ev.corr>>

\* remove_stock_event: WATCH and GET of every item; an error outcome is
\* published without being recorded
RemoveRead(w) ==
    /\ stockW[w].pc = "read"
    /\ stockW[w].ev.type = EVENT_SUBTRACT_STOCK
    /\ LET r == RemoveScan(stockW[w].ev.items, stockDb, NoNewItems)
           err == [stockW[w].ev EXCEPT !.type = EVENT_STOCK_ERROR, !.error = r.error]
       IN  IF r.ok
             THEN /\ stockW' = [stockW EXCEPT ![w].pc = "exec", ![w].new = r.new, ![w].dirty = FALSE]
                  /\ UNCHANGED stockLast
             ELSE /\ stockW' = [stockW EXCEPT ![w] = StockIdle]
                  /\ stockLast' = 
                        [kind |-> "error", key |-> StockKeyOfW(w), ev |-> err]
    /\ UNCHANGED <<stockDb, stockIdem, stockTopic>>

\* add_stock_event: WATCH and GET of every item; a missing item raises out
\* of the handler
AddRead(w) ==
    /\ stockW[w].pc = "read"
    /\ stockW[w].ev.type = EVENT_ADD_STOCK
    /\ LET r == AddScan(stockW[w].ev.items, stockDb, NoNewItems)
       IN  IF r.ok
             THEN /\ stockW' = [stockW EXCEPT ![w].pc = "exec", ![w].new = r.new, ![w].dirty = FALSE]
                  /\ UNCHANGED stockLast
             ELSE /\ stockW' = [stockW EXCEPT ![w] = StockIdle]
                  /\ stockLast' = 
                        [kind |-> "raised", key |-> StockKeyOfW(w), ev |-> NoStockEvent]
    /\ UNCHANGED <<stockDb, stockIdem, stockTopic>>

StockSuccessType(t) ==
    IF t = EVENT_SUBTRACT_STOCK THEN EVENT_STOCK_SUBTRACTED ELSE EVENT_STOCK_COMPENSATED

\* pipe.execute() with the items written one SET at a time outside MULTI
\* and the handler stopping after the first
StockExecPartial(w) ==
    /\ stockW[w].pc = "exec"
    /\ IF stockW[w].dirty
         THEN /\ stockW' = [stockW EXCEPT ![w].pc = "read", ![w].new = NoNewItems, ![w].dirty = FALSE,
                                          ![w].tries = @ + 1]
              /\ UNCHANGED <<stockDb, stockIdem, stockLast>>
         ELSE LET ev == stockW[w].ev
                  new == stockW[w].new
                  first == Head(ev.items)[1]
              IN  /\ stockDb' = [stockDb EXCEPT ![first] =
                        [present |-> TRUE, stock |-> new[first],
                         ttl |-> (ev.type = EVENT_SUBTRACT_STOCK)]]
                  /\ stockW' = [StockTouch(stockW, w, {first}) EXCEPT ![w] = StockIdle]
                  /\ UNCHANGED <<stockIdem, stockLast>>
    /\ UNCHANGED stockTopic

\* pipe.execute(): WatchError retries the command; otherwise the items and
\* the idempotency record are written together and the outcome is published.
\* remove_stock_event writes the items with ex=3600, add_stock_event without.
StockExec(w) ==
    /\ stockW[w].pc = "exec"
    /\ IF stockW[w].dirty
         THEN /\ stockW' = [stockW EXCEPT ![w].pc = "read", ![w].new = NoNewItems, ![w].dirty = FALSE,
                                          ![w].tries = @ + 1]
              /\ UNCHANGED <<stockDb, stockIdem, stockLast>>
         ELSE LET ev == stockW[w].ev
                  new == stockW[w].new
                  out == [ev EXCEPT !.type = StockSuccessType(ev.type)]
              IN  /\ stockDb' = [i \in ItemIds |->
                        IF i \in DOMAIN new
                        THEN [present |-> TRUE, stock |-> new[i],
                              ttl |-> (ev.type = EVENT_SUBTRACT_STOCK)]
                        ELSE stockDb[i]]
                  /\ stockIdem' = [k \in (DOMAIN stockIdem) \cup {StockKeyOfW(w)} |->
                        IF k = StockKeyOfW(w) THEN out ELSE stockIdem[k]]
                  /\ stockW' = [StockTouch(stockW, w, DOMAIN new) EXCEPT ![w] = StockIdle]
                  /\ stockLast' = 
                        [kind |-> "applied", key |-> StockKeyOfW(w), ev |-> out]
    /\ UNCHANGED stockTopic

\* the consumer stops inside the command handler: nothing was written, the
\* offset was not committed and the command is delivered again
StockCrash(w) ==
    /\ stockW[w].pc # "idle"
    /\ stockW' = [stockW EXCEPT ![w] = StockIdle]
    /\ UNCHANGED <<stockDb, stockIdem, stockTopic, stockLast>>

\* a store call of the handler (watch, get, execute) raises RedisError, of
\* which ConnectionError, TimeoutError and MasterNotFoundError are
\* subclasses: the error outcome is published, nothing is stored, attempt
\* is not incremented and the while loop goes round again
StockStoreError(w) ==
    /\ stockW[w].pc \in {"read", "exec"}
    /\ stockW[w].tries < MaxTries
    /\ LET t == IF stockW[w].ev.type = EVENT_SUBTRACT_STOCK
                  THEN EVENT_STOCK_ERROR ELSE EVENT_STOCK_COMPENSATION_FAILED
       IN  /\ stockLast' = [kind |-> "storeerror", key |-> StockKeyOfW(w),
                            ev |-> [stockW[w].ev EXCEPT !.type = t, !.error = DB_ERROR_STR]]
           /\ stockW' = [stockW EXCEPT ![w].pc = "read", ![w].new = NoNewItems, ![w].dirty = FALSE,
                                       ![w].ev.error = DB_ERROR_STR, ![w].tries = @ + 1]
    /\ UNCHANGED <<stockDb, stockIdem, stockTopic>>

StockNext ==
    \/ \E t \in {EVENT_SUBTRACT_STOCK, EVENT_ADD_STOCK}, c \in Corrs, items \in ItemLists :
          PublishStockCmd(t, c, items)
    \/ \E w \in Workers, m \in stockTopic : StockReplay(w, m)
    \/ \E w \in Workers, m \in stockTopic : StockReceive(w, m)
    \/ \E w \in Workers : RemoveRead(w)
    \/ \E w \in Workers : AddRead(w)
    \/ \E w \in Workers : StockExec(w)

StockInit ==
    /\ stockDb = [i \in ItemIds |->
          IF i = "i3" THEN NoItem ELSE [present |-> TRUE, stock |-> InitStock, ttl |-> FALSE]]
    /\ stockIdem = [k \in {} |-> NoStockEvent]
    /\ stockTopic = {}
    /\ stockW = [w \in Workers |-> StockIdle]
    /\ stockLast = NoStockLast

(***************************************************************************)
(* Payment participant, src/payment/app.py                                 *)
(***************************************************************************)
NoUser == [present |-> FALSE, credit |-> 0]
NoPayEvent == [type |-> "none", corr |-> "none", user |-> "none", amount |-> 0,
               hasCredit |-> FALSE, credit |-> 0, error |-> ""]
PayIdle == [pc |-> "idle", ev |-> NoPayEvent, new |-> 0, dirty |-> FALSE, attempt |-> 0, tries |-> 0]
NoPayLast == [kind |-> "none", key |-> <<"none", "none">>, ev |-> NoPayEvent]

PayCmd(t, c, u, a) == [type |-> t, corr |-> c, user |-> u, amount |-> a,
                       hasCredit |-> FALSE, credit |-> 0, error |-> ""]

PayKey(m) == <<m.type, m.corr>>
PayKeyOfW(w) == <<payW[w].ev.type, payW[w].ev.corr>>

SetPayIdem(idem, k, ev) == [x \in (DOMAIN idem) \cup {k} |-> IF x = k THEN ev ELSE idem[x]]

\* a write to the user key invalidates the WATCH of every other consumer
PayTouch(W, w, u) ==
    [x \in Workers |->
        IF x # w /\ W[x].pc = "exec" /\ W[x].ev.user = u
        THEN [W[x] EXCEPT !.dirty = TRUE] ELSE W[x]]

PublishPayCmd(t, c, u, a) ==
    /\ Cardinality(payTopic) < MaxCmds
    /\ \A m \in payTopic : PayKey(m) # <<t, c>>
    /\ payTopic' = payTopic \cup {PayCmd(t, c, u, a)}
    /\ UNCHANGED <<userDb, payIdem, payW, payLast>>

\* handle_event: the idempotency lookup; a recorded outcome is republished
PayReplay(w, m) ==
    /\ payW[w].pc = "idle"
    /\ m \in payTopic
    /\ PayKey(m) \in DOMAIN payIdem
    /\ payLast' = 
            [kind |-> "replay", key |-> PayKey(m), ev |-> payIdem[PayKey(m)]]
    /\ UNCHANGED <<userDb, payIdem, payTopic, payW>>

\* handle_event without the idempotency lookup
PayReceiveUnchecked(w, m) ==
    /\ payW[w].pc = "idle"
    /\ m \in payTopic
    /\ payW' = [payW EXCEPT ![w] = [PayIdle EXCEPT !.pc = "read", !.ev = m, !.tries = 1]]
    /\ UNCHANGED <<userDb, payIdem, payTopic, payLast>>

\* handle_event: no record, handle_pay_event / handle_refund_event is entered
PayReceive(w, m) ==
    /\ payW[w].pc = "idle"
    /\ m \in payTopic
    /\ PayKey(m) \notin DOMAIN payIdem
    /\ payW' = [payW EXCEPT ![w] = [PayIdle EXCEPT !.pc = "read", !.ev = m, !.tries = 1]]
    /\ UNCHANGED <<userDb, payIdem, payTopic, payLast>>

\* the error exits of the handlers: the outcome is stored under the
\* idempotency key with master_db.set and then published
PayFail(w, t, msg) ==
    LET err == [payW[w].ev EXCEPT !.type = t, !.error = msg]
    IN  /\ payIdem' = SetPayIdem(payIdem, PayKeyOfW(w), err)
        /\ payW' = [payW EXCEPT ![w] = PayIdle]
        /\ payLast' = 
              [kind |-> "error", key |-> PayKeyOfW(w), ev |-> err]

\* handle_pay_event: WATCH, GET and the business predicate
PayRead(w) ==
    /\ payW[w].pc = "read"
    /\ payW[w].ev.type = EVENT_PAY
    /\ LET u == payW[w].ev.user
           credit == userDb[u].credit - payW[w].ev.amount
       IN  IF ~userDb[u].present
             THEN PayFail(w, EVENT_PAYMENT_ERROR, "USER NOT FOUND")
           ELSE IF credit < 0
             THEN PayFail(w, EVENT_PAYMENT_ERROR, "INSUFFICIENT FUNDS")
           ELSE /\ payW' = [payW EXCEPT ![w].pc = "exec", ![w].new = credit, ![w].dirty = FALSE,
                                        ![w].ev.hasCredit = TRUE, ![w].ev.credit = credit]
                /\ UNCHANGED <<payIdem, payLast>>
    /\ UNCHANGED <<userDb, payTopic>>

\* handle_refund_event with the amount subtracted instead of added
RefundReadSubtracting(w) ==
    /\ payW[w].pc = "read"
    /\ payW[w].ev.type = EVENT_REFUND
    /\ LET u == payW[w].ev.user
           credit == userDb[u].credit - payW[w].ev.amount
       IN  IF ~userDb[u].present
             THEN PayFail(w, EVENT_REFUND_ERROR, "USER NOT FOUND")
           ELSE /\ payW' = [payW EXCEPT ![w].pc = "exec", ![w].new = credit, ![w].dirty = FALSE,
                                        ![w].ev.hasCredit = TRUE, ![w].ev.credit = credit]
                /\ UNCHANGED <<payIdem, payLast>>
    /\ UNCHANGED <<userDb, payTopic>>

\* handle_refund_event: WATCH, GET; only a missing user fails
RefundRead(w) ==
    /\ payW[w].pc = "read"
    /\ payW[w].ev.type = EVENT_REFUND
    /\ LET u == payW[w].ev.user
           credit == userDb[u].credit + payW[w].ev.amount
       IN  IF ~userDb[u].present
             THEN PayFail(w, EVENT_REFUND_ERROR, "USER NOT FOUND")
           ELSE /\ payW' = [payW EXCEPT ![w].pc = "exec", ![w].new = credit, ![w].dirty = FALSE,
                                        ![w].ev.hasCredit = TRUE, ![w].ev.credit = credit]
                /\ UNCHANGED <<payIdem, payLast>>
    /\ UNCHANGED <<userDb, payTopic>>

PaySuccessType(t) == IF t = EVENT_PAY THEN EVENT_PAYMENT_SUCCESS ELSE EVENT_REFUND_SUCCESS

\* pipe.execute() of a pipeline that did not WATCH the user key
PayExecUnwatched(w) ==
    /\ payW[w].pc = "exec"
    /\ LET ev == payW[w].ev
           out == [ev EXCEPT !.type = PaySuccessType(ev.type)]
       IN  /\ userDb' = [userDb EXCEPT ![ev.user] = [present |-> TRUE, credit |-> payW[w].new]]
           /\ payIdem' = SetPayIdem(payIdem, PayKeyOfW(w), out)
           /\ payW' = [PayTouch(payW, w, ev.user) EXCEPT ![w] = PayIdle]
           /\ payLast' =
                 [kind |-> "applied", key |-> PayKeyOfW(w), ev |-> out]
    /\ UNCHANGED payTopic

\* pipe.execute(): WatchError retries; otherwise the credit and the
\* idempotency record are written together and the outcome is published
PayExec(w) ==
    /\ payW[w].pc = "exec"
    /\ IF payW[w].dirty
         THEN /\ payW' = [payW EXCEPT ![w].pc = "read", ![w].dirty = FALSE, ![w].tries = @ + 1]
              /\ UNCHANGED <<userDb, payIdem, payLast>>
         ELSE LET ev == payW[w].ev
                  out == [ev EXCEPT !.type = PaySuccessType(ev.type)]
              IN  /\ userDb' = [userDb EXCEPT ![ev.user] = [present |-> TRUE, credit |-> payW[w].new]]
                  /\ payIdem' = SetPayIdem(payIdem, PayKeyOfW(w), out)
                  /\ payW' = [PayTouch(payW, w, ev.user) EXCEPT ![w] = PayIdle]
                  /\ payLast' = 
                        [kind |-> "applied", key |-> PayKeyOfW(w), ev |-> out]
    /\ UNCHANGED payTopic

\* the consumer stops inside the command handler
PayCrash(w) ==
    /\ payW[w].pc # "idle"
    /\ payW' = [payW EXCEPT ![w] = PayIdle]
    /\ UNCHANGED <<userDb, payIdem, payTopic, payLast>>

\* a store call of the handler (watch, get, execute) raises a store error.
\* handle_pay_event counts the attempt and after max_retries stores and
\* publishes PaymentError; handle_refund_event sleeps and goes round the
\* while loop again without counting
PayStoreError(w) ==
    /\ payW[w].pc \in {"read", "exec"}
    /\ payW[w].tries < MaxTries
    /\ IF payW[w].ev.type = EVENT_PAY /\ payW[w].attempt + 1 >= max_retries
         THEN PayFail(w, EVENT_PAYMENT_ERROR, DB_ERROR_STR)
         ELSE /\ payW' = [payW EXCEPT ![w].pc = "read", ![w].dirty = FALSE, ![w].tries = @ + 1,
                                      ![w].attempt = IF payW[w].ev.type = EVENT_PAY
                                                       THEN @ + 1 ELSE @]
              /\ UNCHANGED <<payIdem, payLast>>
    /\ UNCHANGED <<userDb, payTopic>>

PayNext ==
    \/ \E t \in {EVENT_PAY, EVENT_REFUND}, c \in Corrs, p \in PayLoads :
          PublishPayCmd(t, c, p[1], p[2])
    \/ \E w \in Workers, m \in payTopic : PayReplay(w, m)
    \/ \E w \in Workers, m \in payTopic : PayReceive(w, m)
    \/ \E w \in Workers : PayRead(w)
    \/ \E w \in Workers : RefundRead(w)
    \/ \E w \in Workers : PayExec(w)

PayInit ==
    /\ userDb = [u \in UserIds |->
          IF u = "u2" THEN NoUser ELSE [present |-> TRUE, credit |-> InitCredit]]
    /\ payIdem = [k \in {} |-> NoPayEvent]
    /\ payTopic = {}
    /\ payW = [w \in Workers |-> PayIdle]
    /\ payLast = NoPayLast

(***************************************************************************)
(* Saga engine, src/common/saga/saga.py, with the step functions of        *)
(* src/orchestrator/app.py                                                 *)
(***************************************************************************)
CorrectEvents == <<EVENT_STOCK_SUBTRACTED, EVENT_PAYMENT_SUCCESS>>
ErrorEvents == {EVENT_STOCK_ERROR, EVENT_PAYMENT_ERROR}
CommitEvent == "CheckoutCompleted"
AbortEvent == EVENT_CHECKOUT_FAILED

\* len(saga._transactions)
NumTransactions == Len(CorrectEvents)

CorrectEventSet == { CorrectEvents[k] : k \in 1..NumTransactions }

\* the payload fields an event carries: a participant's outcome echoes the
\* fields of the command it answers
StockFields == {"order_id", "items", "correlation_id"}
PaymentFields == {"order_id", "user_id", "amount", "correlation_id"}
CheckoutFields == StockFields \cup PaymentFields
FieldsOf(t) ==
    IF t \in {EVENT_STOCK_SUBTRACTED, EVENT_STOCK_ERROR, EVENT_STOCK_COMPENSATED,
              EVENT_STOCK_COMPENSATION_FAILED} THEN StockFields
    ELSE IF t = EVENT_CHECKOUT_REQUESTED THEN CheckoutFields
    ELSE PaymentFields

SagaEvent(t, c) == [type |-> t, corr |-> c, fields |-> FieldsOf(t)]

\* the event types delivered to the orchestrator
OrchestratorEventTypes ==
    {EVENT_STOCK_SUBTRACTED, EVENT_STOCK_ERROR, EVENT_PAYMENT_SUCCESS, EVENT_PAYMENT_ERROR,
     EVENT_STOCK_COMPENSATED, EVENT_REFUND_SUCCESS}

\* subtract_item_transaction, process_payment_transaction: the fields read
\* and the type of the command sent
TransactionFields(i) == IF i = 0 THEN StockFields ELSE PaymentFields
TransactionCommand(i) == IF i = 0 THEN "SubtractStock" ELSE "pay"
\* compensate_stock, compensate_payment
CompensationFields(i) == IF i = 0 THEN StockFields ELSE PaymentFields
CompensationCommand(i) == IF i = 0 THEN "AddStock" ELSE "refund"

\* the event_key the step functions pass to send_event
MessageKey(cmd) ==
    IF cmd = "SubtractStock" THEN "subtract-stock"
    ELSE IF cmd = "pay" THEN "process-payment"
    ELSE IF cmd = "AddStock" THEN "compensate-stock"
    ELSE IF cmd = "refund" THEN "compensate-payment"
    ELSE "checkout-response"

\* a step function is called: KeyError when the event lacks a field it
\* reads, otherwise the command is handed to the producer and the plain
\* function returns None
CallStep(fields, cmd, e) ==
    IF fields \subseteq e.fields
      THEN [sent |-> <<[type |-> cmd, corr |-> e.corr, key |-> MessageKey(cmd)]>>,
            exc |-> "none", ret |-> "None"]
      ELSE [sent |-> <<>>, exc |-> "KeyError", ret |-> "None"]

\* `await x`: None is not awaitable
AwaitValue(x) == IF x = "None" THEN "TypeError" ELSE "none"

\* LocalTransaction.execute / BackwardRecovery.recover followed by the
\* await of what the step function returned
CallAndAwait(fields, cmd, e) ==
    LET r == CallStep(fields, cmd, e)
    IN  [sent |-> r.sent, exc |-> IF r.exc # "none" THEN r.exc ELSE AwaitValue(r.ret)]

\* Saga.compensate: compensations index-1 .. 0, one after the other; an
\* exception leaves the loop
RECURSIVE Compensate(_, _)
Compensate(index, e) ==
    IF index = 0 THEN [comps |-> <<>>, sent |-> <<>>, exc |-> "none"]
    ELSE LET r == CallAndAwait(CompensationFields(index - 1), CompensationCommand(index - 1), e)
         IN  IF r.exc # "none"
               THEN [comps |-> <<index - 1>>, sent |-> r.sent, exc |-> r.exc]
               ELSE LET rest == Compensate(index - 1, e)
                    IN  [comps |-> <<index - 1>> \o rest.comps,
                         sent |-> r.sent \o rest.sent, exc |-> rest.exc]

NoRun == [op |-> "none", type |-> "none", corr |-> "none", found |-> FALSE, k |-> -1,
          aborting |-> FALSE, comps |-> <<>>, forward |-> <<>>, commit |-> FALSE,
          abort |-> FALSE, removed |-> FALSE, raised |-> "none"]

RemoveSaga(sagas, c) == [x \in (DOMAIN sagas) \ {c} |-> sagas[x]]
PutSaga(sagas, c, sg) == [x \in (DOMAIN sagas) \cup {c} |-> IF x = c THEN sg ELSE sagas[x]]

\* aborting() with an abort action that can be awaited: the saga is deleted
\* once the abort event is sent
AbortingAndRemoving(sagas, e, run, sent) ==
    LET index == sagas[e.corr].index
        comp == Compensate(index, e)
        ab == CallStep({}, AbortEvent, e)
        run1 == [run EXCEPT !.aborting = TRUE, !.k = index, !.comps = comp.comps]
    IN  IF comp.exc # "none"
          THEN [sagas |-> sagas, sent |-> sent \o comp.sent,
                run |-> [run1 EXCEPT !.raised = comp.exc]]
        ELSE [sagas |-> RemoveSaga(sagas, e.corr), sent |-> sent \o comp.sent \o ab.sent,
              run |-> [run1 EXCEPT !.abort = TRUE, !.removed = TRUE, !.raised = "SagaError"]]

\* aborting(): compensate_distributed_transaction, then
\* abort_distributed_transaction (Saga.abort sets the type, calls
\* abort_checkout and awaits its result; the saga is deleted afterwards),
\* then raise SagaError
Aborting(sagas, e, run, sent) ==
    LET index == sagas[e.corr].index
        comp == Compensate(index, e)
        ab == CallAndAwait({}, AbortEvent, e)
        run1 == [run EXCEPT !.aborting = TRUE, !.k = index, !.comps = comp.comps]
    IN  IF comp.exc # "none"
          THEN [sagas |-> sagas, sent |-> sent \o comp.sent,
                run |-> [run1 EXCEPT !.raised = comp.exc]]
        ELSE IF ab.exc # "none"
          THEN [sagas |-> sagas, sent |-> sent \o comp.sent \o ab.sent,
                run |-> [run1 EXCEPT !.abort = TRUE, !.raised = ab.exc]]
        ELSE [sagas |-> RemoveSaga(sagas, e.corr), sent |-> sent \o comp.sent \o ab.sent,
              run |-> [run1 EXCEPT !.abort = TRUE, !.removed = TRUE, !.raised = "SagaError"]]

\* the try block of event_handling: mark_transaction_complete, then
\* next_transaction or commit_distributed_transaction; any exception aborts
Advance(sagas, e, run) ==
    LET index == sagas[e.corr].index + 1
        sagas1 == [sagas EXCEPT ![e.corr].index = index]
        nt == CallAndAwait(TransactionFields(index), TransactionCommand(index), e)
        cm == CallAndAwait({}, CommitEvent, e)
    IN  IF index # NumTransactions
          THEN IF nt.exc = "none"
                 THEN [sagas |-> sagas1, sent |-> nt.sent,
                       run |-> [run EXCEPT !.forward = <<index>>]]
                 ELSE Aborting(sagas1, e, [run EXCEPT !.forward = <<index>>], nt.sent)
          ELSE IF cm.exc = "none"
                 THEN [sagas |-> RemoveSaga(sagas1, e.corr), sent |-> cm.sent,
                       run |-> [run EXCEPT !.commit = TRUE, !.removed = TRUE]]
                 ELSE Aborting(sagas1, e, [run EXCEPT !.commit = TRUE], cm.sent)

\* SagaManager.event_handling, run to completion
EventHandlingRun(sagas, e) ==
    LET run == [NoRun EXCEPT !.op = "event_handling", !.type = e.type, !.corr = e.corr]
    IN  IF e.corr \notin DOMAIN sagas
          THEN [sagas |-> sagas, sent |-> <<>>, run |-> [run EXCEPT !.raised = "RuntimeWarning"]]
        ELSE LET index == sagas[e.corr].index
                 run0 == [run EXCEPT !.found = TRUE, !.k = index]
             IN  IF e.type \notin CorrectEventSet
                   THEN IF e.type \in ErrorEvents
                          THEN Aborting(sagas, e, run0, <<>>)
                          ELSE [sagas |-> sagas, sent |-> <<>>,
                                run |-> [run0 EXCEPT !.raised = "RuntimeWarning"]]
                 \* is_expected_event indexes CorrectEvents[current_transaction_index]
                 ELSE IF index >= NumTransactions
                   THEN [sagas |-> sagas, sent |-> <<>>,
                         run |-> [run0 EXCEPT !.raised = "IndexError"]]
                 ELSE IF CorrectEvents[index + 1] = e.type
                   THEN Advance(sagas, e, run0)
                   ELSE Aborting(sagas, e, run0, <<>>)

\* SagaManager.build_distributed_transaction: a new Saga with
\* current_transaction_index = 0 is stored under the correlation id
BuildDistributedTransaction(c) ==
    /\ ongoing_sagas' = PutSaga(ongoing_sagas, c, [index |-> 0, started |-> FALSE])
    /\ lastRun' = [NoRun EXCEPT !.op = "build", !.type = EVENT_CHECKOUT_REQUESTED, !.corr = c,
                                !.found = c \in DOMAIN ongoing_sagas,
                                !.k = IF c \in DOMAIN ongoing_sagas
                                        THEN ongoing_sagas[c].index ELSE -1]
    /\ handled' = handled + 1
    /\ UNCHANGED orchOut

\* Saga.next_transaction run for the CheckoutRequested event of a saga that
\* was just built
NextTransaction(c) ==
    /\ c \in DOMAIN ongoing_sagas
    /\ ~ongoing_sagas[c].started
    /\ LET e == SagaEvent(EVENT_CHECKOUT_REQUESTED, c)
           index == ongoing_sagas[c].index
           nt == CallAndAwait(TransactionFields(index), TransactionCommand(index), e)
       IN  /\ orchOut' = orchOut \o nt.sent
           /\ lastRun' = [NoRun EXCEPT !.op = "next_transaction", !.type = e.type, !.corr = c,
                                       !.found = TRUE, !.k = index, !.forward = <<index>>,
                                       !.raised = IF nt.exc = "none" THEN "none" ELSE "SagaError"]
    /\ ongoing_sagas' = [ongoing_sagas EXCEPT ![c].started = TRUE]
    /\ UNCHANGED handled

\* SagaManager.event_handling with a saga created on the fly for an event
\* whose correlation id is not in ongoing_sagas
EventHandlingDefaulting(t, c) ==
    /\ handled < MaxEvents
    /\ LET known == IF c \in DOMAIN ongoing_sagas THEN ongoing_sagas
                    ELSE PutSaga(ongoing_sagas, c, [index |-> 0, started |-> TRUE])
           r == EventHandlingRun(known, SagaEvent(t, c))
       IN  /\ ongoing_sagas' = r.sagas
           /\ orchOut' = orchOut \o r.sent
           /\ lastRun' = r.run
    /\ handled' = handled + 1

\* SagaManager.event_handling run for a delivered event
EventHandling(t, c) ==
    /\ handled < MaxEvents
    /\ LET r == EventHandlingRun(ongoing_sagas, SagaEvent(t, c))
       IN  /\ ongoing_sagas' = r.sagas
           /\ orchOut' = orchOut \o r.sent
           /\ lastRun' = r.run
    /\ handled' = handled + 1

\* the orchestrator process stops and is started again: SAGA_MANAGER is a
\* new SagaManager, whose ongoing_sagas is empty
OrchestratorCrash ==
    /\ ongoing_sagas # [c \in {} |-> [index |-> 0, started |-> FALSE]]
    /\ ongoing_sagas' = [c \in {} |-> [index |-> 0, started |-> FALSE]]
    /\ lastRun' = [NoRun EXCEPT !.op = "crash"]
    /\ UNCHANGED <<orchOut, handled>>

participantVars == <<stockVars, payVars, orderVars, consumerVars>>

SagaInit ==
    /\ ongoing_sagas = [c \in {} |-> [index |-> 0, started |-> FALSE]]
    /\ orchOut = <<>>
    /\ lastRun = NoRun
    /\ handled = 0

EngineNext ==
    \/ \E c \in Corrs :
          handled < MaxEvents /\ BuildDistributedTransaction(c) /\ UNCHANGED participantVars
    \/ \E c \in Corrs : NextTransaction(c) /\ UNCHANGED participantVars
    \/ \E t \in OrchestratorEventTypes, c \in Corrs :
          EventHandling(t, c) /\ UNCHANGED participantVars

(***************************************************************************)
(* Order service bridge, src/order/app.py, and the orchestrator's consumer *)
(* callback, src/orchestrator/app.py                                       *)
(***************************************************************************)
Orders == {"o1", "o2", "o3", "o4"}

\* the orders the requests of a run of the order service address
BridgeOrders == {"o1", "o2"}

\* StockValue.price of the items the orders hold
ItemPrice(i) == 1

\* total_cost as add_item accumulates it: quantity * price per item
RECURSIVE TotalCost(_)
TotalCost(items) ==
    IF items = <<>> THEN 0
    ELSE Head(items)[2] * ItemPrice(Head(items)[1]) + TotalCost(Tail(items))

\* the orders in the store: o1 and o2 are covered by stock and credit, o3
\* costs more than the user's credit, o4 asks for more than the stock of i1
OrderItems(o) ==
    IF o = "o1" THEN <<<<"i1", 1>>>>
    ELSE IF o = "o2" THEN <<<<"i1", 1>>, <<"i2", 1>>>>
    ELSE IF o = "o3" THEN <<<<"i1", InitStock>>, <<"i2", InitStock>>>>
    ELSE <<<<"i1", InitStock + 1>>>>

\* OrderValue
OrderValue(u, items, cost) == [paid |-> FALSE, user_id |-> u, items |-> items, total_cost |-> cost]

NoCheckout == [state |-> "idle", order |-> "none", op |-> "none"]

CheckoutRequestedEvent(c, o, v) ==
    [type |-> EVENT_CHECKOUT_REQUESTED, corr |-> c, order |-> o,
     user_id |-> v.user_id, items |-> v.items, amount |-> v.total_cost]

\* POST /checkout/<order_id> up to the blocking read: the order is read, a
\* fresh correlation id is drawn and CheckoutRequested is published
Checkout(o, c) ==
    /\ bridge[c].state = "idle"
    /\ orchTopic' = orchTopic \cup {CheckoutRequestedEvent(c, o, orderDb[o])}
    /\ bridge' = [bridge EXCEPT ![c] = [state |-> "waiting", order |-> o, op |-> "checkout"]]
    /\ UNCHANGED <<orderDb, orchAcked, stockReq, orderTopic, orderIdem, stream, orderW>>

\* POST /checkout/<order_id>: the blocking read of order_response:<c>
\* returned nothing within the timeout
CheckoutTimeout(c) ==
    /\ bridge[c].state = "waiting"
    /\ bridge[c].op = "checkout"
    /\ stream[c] = <<>>
    /\ bridge' = [bridge EXCEPT ![c].state = "408"]
    /\ UNCHANGED <<orderDb, orchTopic, orchAcked, stockReq, orderTopic, orderIdem, stream, orderW>>

\* handle_response: for CheckoutRequested the saga is built and the
\* coroutine next_transaction(event) is created but not awaited; for any
\* other type the coroutine event_handling(event) is created but not
\* awaited.  The consumer then commits the offset.  A message whose offset
\* is committed may still be delivered again (at-least-once).
HandleResponse(m) ==
    /\ m \in orchAcked => handled < MaxEvents
    /\ IF m.type = EVENT_CHECKOUT_REQUESTED
         THEN BuildDistributedTransaction(m.corr)
         ELSE /\ handled' = handled + 1
              /\ UNCHANGED <<ongoing_sagas, orchOut, lastRun>>
    /\ orchAcked' = orchAcked \cup {m}
    /\ UNCHANGED <<orderDb, bridge, orchTopic, stockReq, orderTopic, orderIdem, stream, orderW>>

EVENT_FIND_ITEM == "FindItem"
EVENT_ITEM_FOUND == "ItemFound"
EVENT_ITEM_NOT_FOUND == "ItemNotFound"

\* the event types handle_response_event does not drop
OrderEventTypes ==
    {EVENT_ITEM_FOUND, EVENT_ITEM_NOT_FOUND, EVENT_CHECKOUT_SUCCESS, EVENT_CHECKOUT_FAILED}

NoOrderEvent ==
    [type |-> "none", corr |-> "none", order |-> "none", item |-> "none",
     quantity |-> 0, price |-> 0, total_cost |-> 0]
NoEntry == OrderValue("none", <<>>, 0)
OrderIdle == [pc |-> "idle", ev |-> NoOrderEvent, entry |-> NoEntry, last |-> "none"]

\* f"{event['type']}:{correlation_id}"
OrderIdemKey(m) == <<m.type, m.corr>>

\* update_items: the quantity is added to the entry of the item if the
\* order holds one, otherwise (item_id, quantity) is appended
RECURSIVE update_items(_, _, _)
update_items(items, item_id, quantity) ==
    IF items = <<>> THEN <<<<item_id, quantity>>>>
    ELSE IF Head(items)[1] = item_id
           THEN <<<<item_id, Head(items)[2] + quantity>>>> \o Tail(items)
           ELSE <<Head(items)>> \o update_items(Tail(items), item_id, quantity)

\* POST /addItem/<order_id>/<item_id>/<quantity> up to the blocking read: the
\* order is read, a fresh correlation id is drawn and FindItem is published
AddItem(o, i, q, c) ==
    /\ bridge[c].state = "idle"
    /\ stockReq' = stockReq \cup
          {[NoOrderEvent EXCEPT !.type = EVENT_FIND_ITEM, !.corr = c, !.order = o,
                                !.item = i, !.quantity = q]}
    /\ bridge' = [bridge EXCEPT ![c] = [state |-> "waiting", order |-> o, op |-> "addItem"]]
    /\ UNCHANGED <<orderDb, orchTopic, orchAcked, orderTopic, orderIdem, stream, orderW>>

\* stock service, find_item_event: ItemFound with the item's price if the
\* item is in the store, ItemNotFound otherwise, sent to stock-responses
FindItemEvent(m) ==
    /\ orderTopic' = orderTopic \cup
          {IF stockDb[m.item].present
             THEN [m EXCEPT !.type = EVENT_ITEM_FOUND, !.price = ItemPrice(m.item)]
             ELSE [m EXCEPT !.type = EVENT_ITEM_NOT_FOUND]}
    /\ UNCHANGED <<orderDb, bridge, orchTopic, orchAcked, stockReq, orderIdem, stream, orderW>>

\* the outcome of the checkout with correlation id c arrives on
\* orchestrator-responses, the topic the order service consumes
CheckoutOutcome(c, t) ==
    /\ bridge[c].state = "waiting"
    /\ bridge[c].op = "checkout"
    /\ \A m \in orderTopic : m.corr # c
    /\ orderTopic' = orderTopic \cup
          {[NoOrderEvent EXCEPT !.type = t, !.corr = c, !.order = bridge[c].order]}
    /\ UNCHANGED <<orderDb, bridge, orchTopic, orchAcked, stockReq, orderIdem, stream, orderW>>

\* handle_response_event up to the dispatch, without the idempotency check
OrderReceiveUnchecked(w, m) ==
    /\ orderW[w].pc = "idle"
    /\ m.type \in OrderEventTypes
    /\ \A v \in Workers : orderW[v].pc # "idle" => orderW[v].ev.corr # m.corr
    /\ orderW' = [orderW EXCEPT ![w] = [pc |-> "got", ev |-> m, entry |-> NoEntry, last |-> "none"]]
    /\ UNCHANGED <<orderDb, bridge, orchTopic, orchAcked, stockReq, orderTopic, orderIdem, stream>>

\* handle_response_event up to the dispatch: a message of the partition is
\* delivered to the consumer that owns it (messages of one correlation id
\* share a key, so a partition); the idempotency key is read and the event
\* is skipped if the key is in the store
OrderReceive(w, m) ==
    /\ orderW[w].pc = "idle"
    /\ m.type \in OrderEventTypes
    /\ \A v \in Workers : orderW[v].pc # "idle" => orderW[v].ev.corr # m.corr
    /\ orderW' = [orderW EXCEPT ![w] =
          IF OrderIdemKey(m) \in DOMAIN orderIdem
            THEN [pc |-> "idle", ev |-> m, entry |-> NoEntry, last |-> "skipped"]
            ELSE [pc |-> "got", ev |-> m, entry |-> NoEntry, last |-> "none"]]
    /\ UNCHANGED <<orderDb, bridge, orchTopic, orchAcked, stockReq, orderTopic, orderIdem, stream>>

\* handle_find_item_event / handle_checkout_event: master_db.get(order_id),
\* outside any WATCH
OrderRead(w) ==
    /\ orderW[w].pc = "got"
    /\ orderW[w].ev.type \in {EVENT_ITEM_FOUND, EVENT_CHECKOUT_SUCCESS}
    /\ orderW' = [orderW EXCEPT ![w].pc = "read", ![w].entry = orderDb[orderW[w].ev.order]]
    /\ UNCHANGED <<orderDb, bridge, orchTopic, orchAcked, stockReq, orderTopic, orderIdem, stream>>

\* the order entry as the handler changes it in memory
OrderUpdated(entry, ev) ==
    IF ev.type = EVENT_ITEM_FOUND
      THEN [entry EXCEPT !.items = update_items(entry.items, ev.item, ev.quantity),
                         !.total_cost = entry.total_cost + ev.quantity * ev.price]
      ELSE [entry EXCEPT !.paid = TRUE]

\* the event as it is recorded: ItemFound carries the order's new total
OrderRecorded(entry, ev) ==
    IF ev.type = EVENT_ITEM_FOUND
      THEN [ev EXCEPT !.total_cost = OrderUpdated(entry, ev).total_cost]
      ELSE ev

\* handle_find_item_event / handle_checkout_event: MULTI ... EXEC.  The
\* idempotency record and the stream entry are written, and for ItemFound
\* and CheckoutSuccess the order entry computed from the earlier read
OrderExec(w) ==
    LET ev == orderW[w].ev
        reads == ev.type \in {EVENT_ITEM_FOUND, EVENT_CHECKOUT_SUCCESS}
        rec == OrderRecorded(orderW[w].entry, ev)
    IN  /\ orderW[w].pc = IF reads THEN "read" ELSE "got"
        /\ orderIdem' = [k \in DOMAIN orderIdem \cup {OrderIdemKey(ev)} |->
                           IF k = OrderIdemKey(ev) THEN rec ELSE orderIdem[k]]
        /\ stream' = [stream EXCEPT ![ev.corr] = Append(@, rec)]
        /\ orderDb' = IF reads
                        THEN [orderDb EXCEPT ![ev.order] = OrderUpdated(orderW[w].entry, ev)]
                        ELSE orderDb
        /\ orderW' = [orderW EXCEPT ![w] = [pc |-> "idle", ev |-> ev, entry |-> NoEntry, last |-> "applied"]]
        /\ UNCHANGED <<bridge, orchTopic, orchAcked, stockReq, orderTopic>>

\* the consumer stops between the delivery and EXEC: nothing was written and
\* the offset was not committed
OrderCrash(w) ==
    /\ orderW[w].pc # "idle"
    /\ orderW' = [orderW EXCEPT ![w] = OrderIdle]
    /\ UNCHANGED <<orderDb, bridge, orchTopic, orchAcked, stockReq, orderTopic, orderIdem, stream>>

\* add_item after the blocking read returned an entry: the stream is
\* deleted, ItemNotFound gives 400 and anything else 200
AddItemRespond(c) ==
    /\ bridge[c].state = "waiting"
    /\ bridge[c].op = "addItem"
    /\ stream[c] # <<>>
    /\ stream' = [stream EXCEPT ![c] = <<>>]
    /\ bridge' = [bridge EXCEPT ![c].state =
          IF Head(stream[c]).type = EVENT_ITEM_NOT_FOUND THEN "400" ELSE "200"]
    /\ UNCHANGED <<orderDb, orchTopic, orchAcked, stockReq, orderTopic, orderIdem, orderW>>

\* add_item: the blocking read of order_response:<c> returned nothing
\* within the timeout, without the test that it returned nothing
AddItemTimeoutNoRead(c) ==
    /\ bridge[c].state = "waiting"
    /\ bridge[c].op = "addItem"
    /\ bridge' = [bridge EXCEPT ![c].state = "408"]
    /\ UNCHANGED <<orderDb, orchTopic, orchAcked, stockReq, orderTopic, orderIdem, stream, orderW>>

\* add_item: the blocking read of order_response:<c> returned nothing
\* within the timeout
AddItemTimeout(c) ==
    /\ bridge[c].state = "waiting"
    /\ bridge[c].op = "addItem"
    /\ stream[c] = <<>>
    /\ bridge' = [bridge EXCEPT ![c].state = "408"]
    /\ UNCHANGED <<orderDb, orchTopic, orchAcked, stockReq, orderTopic, orderIdem, stream, orderW>>

\* checkout after the blocking read returned an entry: the stream is
\* deleted, CheckoutFailed gives 400 and anything else 200
CheckoutRespond(c) ==
    /\ bridge[c].state = "waiting"
    /\ bridge[c].op = "checkout"
    /\ stream[c] # <<>>
    /\ stream' = [stream EXCEPT ![c] = <<>>]
    /\ bridge' = [bridge EXCEPT ![c].state =
          IF Head(stream[c]).type = EVENT_CHECKOUT_FAILED THEN "400" ELSE "200"]
    /\ UNCHANGED <<orderDb, orchTopic, orchAcked, stockReq, orderTopic, orderIdem, orderW>>

OrderInit ==
    /\ orderDb = [o \in Orders |-> OrderValue("u1", OrderItems(o), TotalCost(OrderItems(o)))]
    /\ bridge = [c \in Corrs |-> NoCheckout]
    /\ orchTopic = {}
    /\ orchAcked = {}
    /\ stockReq = {}
    /\ orderTopic = {}
    /\ orderIdem = [k \in {} |-> NoOrderEvent]
    /\ stream = [c \in Corrs |-> <<>>]
    /\ orderW = [w \in Workers |-> OrderIdle]

(***************************************************************************)
(* Consumer loop, src/common/kafka/kafkaConsumer.py                        *)
(***************************************************************************)
\* a producer appends a message to the partition
Produce ==
    /\ published < MaxMsgs
    /\ published' = published + 1
    /\ UNCHANGED <<position, committed, failed, redelivered, rebalanceVars>>

\* _consume_events: the iterator yields the message at the position and
\* moves on; the callback returns and commit() commits the position
ConsumeOk ==
    /\ position < published
    /\ position' = position + 1
    /\ committed' = position + 1
    /\ failed' = failed \ {position}
    /\ redelivered' = IF position \in failed THEN redelivered \cup {position} ELSE redelivered
    /\ UNCHANGED <<published, rebalanceVars>>

\* _consume_events: the callback raises an Exception; it is logged, the
\* loop sleeps and iterates the consumer again from its position, commit()
\* is skipped
ConsumeRaise ==
    /\ position < published
    /\ position' = position + 1
    /\ failed' = failed \cup {position}
    /\ redelivered' = IF position \in failed THEN redelivered \cup {position} ELSE redelivered
    /\ UNCHANGED <<published, committed, rebalanceVars>>

\* the service is started again (get_instance): the group resumes at the
\* committed offset
ConsumerRestart ==
    /\ position # committed
    /\ position' = committed
    /\ UNCHANGED <<published, committed, failed, redelivered, rebalanceVars>>

\* _consume_events: `async for message in cls._instance` yields the next
\* message of the assigned partition
LoopIterate ==
    /\ loopPc = "iterate"
    /\ assigned
    /\ position < published
    /\ position' = position + 1
    /\ loopPc' = "acquire"
    /\ UNCHANGED <<published, committed, failed, redelivered, rebalance_lock, listenerPc, assigned>>

\* _consume_events: `async with cls._rebalance_lock` is entered
LoopAcquire ==
    /\ loopPc = "acquire"
    /\ rebalance_lock = "free"
    /\ rebalance_lock' = "loop"
    /\ loopPc' = "callback"
    /\ UNCHANGED <<published, position, committed, failed, redelivered, listenerPc, assigned>>

\* _consume_events: `await callback(event)` returns
LoopCallbackReturns ==
    /\ loopPc = "callback"
    /\ loopPc' = "commit"
    /\ UNCHANGED <<published, position, committed, failed, redelivered, rebalance_lock, listenerPc, assigned>>

\* _consume_events: `await callback(event)` raises; the exception leaves
\* `async with`, which releases the lock, and the loop iterates again
LoopCallbackRaises ==
    /\ loopPc = "callback"
    /\ rebalance_lock' = "free"
    /\ loopPc' = "iterate"
    /\ UNCHANGED <<published, position, committed, failed, redelivered, listenerPc, assigned>>

\* _consume_events: `await cls._instance.commit()` commits the position of
\* the partitions assigned to the consumer, then `async with` is left
LoopCommit ==
    /\ loopPc = "commit"
    /\ committed' = IF assigned THEN position ELSE committed
    /\ rebalance_lock' = "free"
    /\ loopPc' = "iterate"
    /\ UNCHANGED <<published, position, failed, redelivered, listenerPc, assigned>>

\* the group rebalances: on_partitions_revoked is called
RevokeCalled ==
    /\ listenerPc = "idle"
    /\ assigned
    /\ listenerPc' = "acquire"
    /\ UNCHANGED <<published, position, committed, failed, redelivered, rebalance_lock, loopPc, assigned>>

\* on_partitions_revoked entered without `async with _rebalance_lock`
RevokeAcquireNoLock ==
    /\ listenerPc = "acquire"
    /\ listenerPc' = "inside"
    /\ UNCHANGED <<published, position, committed, failed, redelivered, rebalance_lock, loopPc, assigned>>

\* on_partitions_revoked: `async with KafkaConsumerSingleton._rebalance_lock`
\* is entered
RevokeAcquire ==
    /\ listenerPc = "acquire"
    /\ rebalance_lock = "free"
    /\ rebalance_lock' = "listener"
    /\ listenerPc' = "inside"
    /\ UNCHANGED <<published, position, committed, failed, redelivered, loopPc, assigned>>

\* on_partitions_revoked returns: the lock is released and the partition is
\* revoked
RevokeCompletes ==
    /\ listenerPc = "inside"
    /\ rebalance_lock' = IF rebalance_lock = "listener" THEN "free" ELSE rebalance_lock
    /\ listenerPc' = "idle"
    /\ assigned' = FALSE
    /\ UNCHANGED <<published, position, committed, failed, redelivered, loopPc>>

\* on_partitions_assigned: the partition is assigned again and is read from
\* the committed offset
PartitionAssigned ==
    /\ ~assigned
    /\ listenerPc = "idle"
    /\ assigned' = TRUE
    /\ position' = committed
    /\ UNCHANGED <<published, committed, failed, redelivered, rebalance_lock, loopPc, listenerPc>>

ConsumerInit ==
    /\ published = 0
    /\ position = 0
    /\ committed = 0
    /\ failed = {}
    /\ redelivered = {}
    /\ rebalance_lock = "free"
    /\ loopPc = "iterate"
    /\ listenerPc = "idle"
    /\ assigned = TRUE

vars == <<stockVars, payVars, sagaVars, orderVars, consumerVars>>

Init == StockInit /\ PayInit /\ SagaInit /\ OrderInit /\ ConsumerInit

\* The two services share no key and no state, and a run exercises one of
\* them: commands are published to stock-operations or to
\* payment-operations, not to both.
ParticipantsNext ==
    \/ StockNext /\ payTopic = {} /\ UNCHANGED <<payVars, sagaVars, orderVars, consumerVars>>
    \/ PayNext /\ stockTopic = {} /\ UNCHANGED <<stockVars, sagaVars, orderVars, consumerVars>>

SpecParticipants == Init /\ [][ParticipantsNext]_vars

\* the participants behind a partitioned topic: a message is in the hands of
\* one consumer of the group at a time, commands of different keys are
\* handled concurrently, and a consumer may stop inside a handler
PartitionedNext ==
    \/ \E t \in {EVENT_SUBTRACT_STOCK, EVENT_ADD_STOCK}, c \in Corrs, items \in ItemLists :
          /\ PublishStockCmd(t, c, items) /\ payTopic = {}
          /\ UNCHANGED <<payVars, sagaVars, orderVars, consumerVars>>
    \/ \E w \in Workers, m \in stockTopic :
          StockReplay(w, m) /\ UNCHANGED <<payVars, sagaVars, orderVars, consumerVars>>
    \/ \E w \in Workers, m \in stockTopic :
          /\ \A v \in Workers : stockW[v].ev # m
          /\ StockReceive(w, m) /\ UNCHANGED <<payVars, sagaVars, orderVars, consumerVars>>
    \/ \E w \in Workers : RemoveRead(w) /\ UNCHANGED <<payVars, sagaVars, orderVars, consumerVars>>
    \/ \E w \in Workers : AddRead(w) /\ UNCHANGED <<payVars, sagaVars, orderVars, consumerVars>>
    \/ \E w \in Workers : StockExec(w) /\ UNCHANGED <<payVars, sagaVars, orderVars, consumerVars>>
    \/ \E w \in Workers : StockCrash(w) /\ UNCHANGED <<payVars, sagaVars, orderVars, consumerVars>>
    \/ \E t \in {EVENT_PAY, EVENT_REFUND}, c \in Corrs, p \in PayLoads :
          /\ PublishPayCmd(t, c, p[1], p[2]) /\ stockTopic = {}
          /\ UNCHANGED <<stockVars, sagaVars, orderVars, consumerVars>>
    \/ \E w \in Workers, m \in payTopic :
          PayReplay(w, m) /\ UNCHANGED <<stockVars, sagaVars, orderVars, consumerVars>>
    \/ \E w \in Workers, m \in payTopic :
          /\ \A v \in Workers : payW[v].ev.type # m.type \/ payW[v].ev.corr # m.corr
          /\ PayReceive(w, m) /\ UNCHANGED <<stockVars, sagaVars, orderVars, consumerVars>>
    \/ \E w \in Workers : PayRead(w) /\ UNCHANGED <<stockVars, sagaVars, orderVars, consumerVars>>
    \/ \E w \in Workers : RefundRead(w) /\ UNCHANGED <<stockVars, sagaVars, orderVars, consumerVars>>
    \/ \E w \in Workers : PayExec(w) /\ UNCHANGED <<stockVars, sagaVars, orderVars, consumerVars>>
    \/ \E w \in Workers : PayCrash(w) /\ UNCHANGED <<stockVars, sagaVars, orderVars, consumerVars>>

SpecPartitioned == Init /\ [][PartitionedNext]_vars

\* one participant consumer whose store calls may fail: one command is
\* handled at a time
FaultyNext ==
    \/ \E t \in {EVENT_SUBTRACT_STOCK, EVENT_ADD_STOCK}, c \in Corrs, items \in ItemLists :
          /\ PublishStockCmd(t, c, items) /\ payTopic = {}
          /\ UNCHANGED <<payVars, sagaVars, orderVars, consumerVars>>
    \/ \E w \in Workers, m \in stockTopic :
          StockReplay(w, m) /\ UNCHANGED <<payVars, sagaVars, orderVars, consumerVars>>
    \/ \E w \in Workers, m \in stockTopic :
          /\ \A v \in Workers : stockW[v].pc = "idle"
          /\ StockReceive(w, m) /\ UNCHANGED <<payVars, sagaVars, orderVars, consumerVars>>
    \/ \E w \in Workers : RemoveRead(w) /\ UNCHANGED <<payVars, sagaVars, orderVars, consumerVars>>
    \/ \E w \in Workers : AddRead(w) /\ UNCHANGED <<payVars, sagaVars, orderVars, consumerVars>>
    \/ \E w \in Workers : StockExec(w) /\ UNCHANGED <<payVars, sagaVars, orderVars, consumerVars>>
    \/ \E w \in Workers : StockStoreError(w) /\ UNCHANGED <<payVars, sagaVars, orderVars, consumerVars>>
    \/ \E t \in {EVENT_PAY, EVENT_REFUND}, c \in Corrs, p \in PayLoads :
          /\ PublishPayCmd(t, c, p[1], p[2]) /\ stockTopic = {}
          /\ UNCHANGED <<stockVars, sagaVars, orderVars, consumerVars>>
    \/ \E w \in Workers, m \in payTopic :
          PayReplay(w, m) /\ UNCHANGED <<stockVars, sagaVars, orderVars, consumerVars>>
    \/ \E w \in Workers, m \in payTopic :
          /\ \A v \in Workers : payW[v].pc = "idle"
          /\ PayReceive(w, m) /\ UNCHANGED <<stockVars, sagaVars, orderVars, consumerVars>>
    \/ \E w \in Workers : PayRead(w) /\ UNCHANGED <<stockVars, sagaVars, orderVars, consumerVars>>
    \/ \E w \in Workers : RefundRead(w) /\ UNCHANGED <<stockVars, sagaVars, orderVars, consumerVars>>
    \/ \E w \in Workers : PayExec(w) /\ UNCHANGED <<stockVars, sagaVars, orderVars, consumerVars>>
    \/ \E w \in Workers : PayStoreError(w) /\ UNCHANGED <<stockVars, sagaVars, orderVars, consumerVars>>

SpecFaulty == Init /\ [][FaultyNext]_vars

\* a checkout request, the SagaManager driven by a caller that awaits its
\* coroutines, and an orchestrator that may stop and start again.  The
\* offset of a CheckoutRequested is committed once it is handled.
CrashNext ==
    \/ \E o \in BridgeOrders, c \in Corrs :
          Checkout(o, c) /\ UNCHANGED <<stockVars, payVars, sagaVars, consumerVars>>
    \/ \E m \in orchTopic \ orchAcked :
          /\ BuildDistributedTransaction(m.corr)
          /\ orchAcked' = orchAcked \cup {m}
          /\ UNCHANGED <<orderDb, bridge, orchTopic, stockReq, orderTopic, orderIdem, stream, orderW>>
          /\ UNCHANGED <<stockVars, payVars, consumerVars>>
    \/ \E c \in Corrs : NextTransaction(c) /\ UNCHANGED participantVars
    \/ \E t \in OrchestratorEventTypes, c \in Corrs :
          EventHandling(t, c) /\ UNCHANGED participantVars
    \/ OrchestratorCrash /\ UNCHANGED participantVars
    \/ \E c \in Corrs : CheckoutTimeout(c) /\ UNCHANGED <<stockVars, payVars, sagaVars, consumerVars>>

SpecCrash == Init /\ [][CrashNext]_vars

\* send_event(STOCK_TOPIC[0], "subtract-stock", event): the SubtractStock
\* command subtract_item_transaction built from the CheckoutRequested event
\* of its transaction, with that event's items, reaches stock-operations
DeliverSubtractStock(k) ==
    /\ orchOut[k].type = "SubtractStock"
    /\ \E m \in orchTopic :
          /\ m.corr = orchOut[k].corr
          /\ PublishStockCmd(EVENT_SUBTRACT_STOCK, m.corr, m.items)

\* send_event(STOCK_TOPIC[0], "compensate-stock", event): the AddStock
\* command compensate_stock built from the items of the event it was handed,
\* which are those of the transaction's CheckoutRequested, reaches
\* stock-operations
DeliverAddStock(k) ==
    /\ orchOut[k].type = "AddStock"
    /\ \E m \in orchTopic :
          /\ m.corr = orchOut[k].corr
          /\ PublishStockCmd(EVENT_ADD_STOCK, m.corr, m.items)

\* the orchestrator's consumer hands the outcome the stock service
\* published to SagaManager.event_handling, once
HandleStockOutcome ==
    /\ stockLast.kind \notin {"none", "raised"}
    /\ ~(/\ lastRun.op = "event_handling"
          /\ lastRun.type = stockLast.ev.type
          /\ lastRun.corr = stockLast.ev.corr)
    /\ EventHandling(stockLast.ev.type, stockLast.ev.corr)

\* one checkout whose SubtractStock meets failing store calls: the bridge,
\* the SagaManager driven by a caller that awaits its coroutines, its
\* commands on their way to the stock service, the stock consumers, which
\* handle one command at a time, and their outcomes on their way back
AbortNext ==
    \/ \E o \in BridgeOrders, c \in Corrs :
          /\ \A d \in Corrs : bridge[d].state = "idle"
          /\ Checkout(o, c) /\ UNCHANGED <<stockVars, payVars, sagaVars, consumerVars>>
    \/ \E m \in orchTopic \ orchAcked :
          /\ BuildDistributedTransaction(m.corr)
          /\ orchAcked' = orchAcked \cup {m}
          /\ UNCHANGED <<orderDb, bridge, orchTopic, stockReq, orderTopic, orderIdem, stream, orderW>>
          /\ UNCHANGED <<stockVars, payVars, consumerVars>>
    \/ \E c \in Corrs : NextTransaction(c) /\ UNCHANGED participantVars
    \/ \E k \in 1..Len(orchOut) :
          DeliverSubtractStock(k) /\ UNCHANGED <<payVars, sagaVars, orderVars, consumerVars>>
    \/ \E k \in 1..Len(orchOut) :
          DeliverAddStock(k) /\ UNCHANGED <<payVars, sagaVars, orderVars, consumerVars>>
    \/ \E w \in Workers, m \in stockTopic :
          StockReplay(w, m) /\ UNCHANGED <<payVars, sagaVars, orderVars, consumerVars>>
    \/ \E w \in Workers, m \in stockTopic :
          /\ \A v \in Workers : stockW[v].pc = "idle"
          /\ StockReceive(w, m) /\ UNCHANGED <<payVars, sagaVars, orderVars, consumerVars>>
    \/ \E w \in Workers : RemoveRead(w) /\ UNCHANGED <<payVars, sagaVars, orderVars, consumerVars>>
    \/ \E w \in Workers : AddRead(w) /\ UNCHANGED <<payVars, sagaVars, orderVars, consumerVars>>
    \/ \E w \in Workers : StockExec(w) /\ UNCHANGED <<payVars, sagaVars, orderVars, consumerVars>>
    \/ \E w \in Workers : StockStoreError(w) /\ UNCHANGED <<payVars, sagaVars, orderVars, consumerVars>>
    \/ HandleStockOutcome /\ UNCHANGED participantVars

SpecAbort == Init /\ [][AbortNext]_vars

\* the consumers keep polling and the handlers keep running: a command or
\* an outcome that was published is delivered and handled; store calls do
\* not fail for ever
FairSpecAbort ==
    /\ SpecAbort
    /\ WF_vars(\E k \in 1..Len(orchOut) :
                  DeliverAddStock(k) /\ UNCHANGED <<payVars, sagaVars, orderVars, consumerVars>>)
    /\ WF_vars(\E w \in Workers, m \in stockTopic :
                  /\ \A v \in Workers : stockW[v].pc = "idle"
                  /\ StockReceive(w, m) /\ UNCHANGED <<payVars, sagaVars, orderVars, consumerVars>>)
    /\ \A w \in Workers :
          /\ WF_vars(AddRead(w) /\ UNCHANGED <<payVars, sagaVars, orderVars, consumerVars>>)
          /\ WF_vars(StockExec(w) /\ UNCHANGED <<payVars, sagaVars, orderVars, consumerVars>>)
    /\ WF_vars(HandleStockOutcome /\ UNCHANGED participantVars)

\* checkout requests for orders that may be paid already: the bridge (a
\* client asks for the checkout of an order again only after the earlier
\* request was answered 200, so after the order was paid), the SagaManager
\* driven by a caller that awaits its coroutines, the stock consumers, and
\* the order consumers applying the CheckoutSuccess that follows the stock
\* subtraction of a transaction
PaidOrderNext ==
    \/ \E o \in BridgeOrders, c \in Corrs :
          /\ \A d \in Corrs : bridge[d].order = o => bridge[d].state = "200"
          /\ Checkout(o, c) /\ UNCHANGED <<stockVars, payVars, sagaVars, consumerVars>>
    \/ \E m \in orchTopic \ orchAcked :
          /\ BuildDistributedTransaction(m.corr)
          /\ orchAcked' = orchAcked \cup {m}
          /\ UNCHANGED <<orderDb, bridge, orchTopic, stockReq, orderTopic, orderIdem, stream, orderW>>
          /\ UNCHANGED <<stockVars, payVars, consumerVars>>
    \/ \E c \in Corrs : NextTransaction(c) /\ UNCHANGED participantVars
    \/ \E k \in 1..Len(orchOut) :
          DeliverSubtractStock(k) /\ UNCHANGED <<payVars, sagaVars, orderVars, consumerVars>>
    \/ \E w \in Workers, m \in stockTopic :
          StockReplay(w, m) /\ UNCHANGED <<payVars, sagaVars, orderVars, consumerVars>>
    \/ \E w \in Workers, m \in stockTopic :
          /\ \A v \in Workers : stockW[v].ev # m
          /\ StockReceive(w, m) /\ UNCHANGED <<payVars, sagaVars, orderVars, consumerVars>>
    \/ \E w \in Workers : RemoveRead(w) /\ UNCHANGED <<payVars, sagaVars, orderVars, consumerVars>>
    \/ \E w \in Workers : StockExec(w) /\ UNCHANGED <<payVars, sagaVars, orderVars, consumerVars>>
    \/ \E c \in Corrs :
          /\ <<EVENT_SUBTRACT_STOCK, c>> \in DOMAIN stockIdem
          /\ CheckoutOutcome(c, EVENT_CHECKOUT_SUCCESS)
          /\ UNCHANGED <<stockVars, payVars, sagaVars, consumerVars>>
    \/ \E w \in Workers, m \in orderTopic :
          OrderReceive(w, m) /\ UNCHANGED <<stockVars, payVars, sagaVars, consumerVars>>
    \/ \E w \in Workers : OrderRead(w) /\ UNCHANGED <<stockVars, payVars, sagaVars, consumerVars>>
    \/ \E w \in Workers : OrderExec(w) /\ UNCHANGED <<stockVars, payVars, sagaVars, consumerVars>>
    \/ \E c \in Corrs : CheckoutRespond(c) /\ UNCHANGED <<stockVars, payVars, sagaVars, consumerVars>>

SpecPaidOrder == Init /\ [][PaidOrderNext]_vars

\* the SagaManager driven by a caller that awaits its coroutines
SpecEngine == Init /\ [][EngineNext]_vars

\* one consumer of a partition and the producers of its topic
ConsumerNext ==
    \/ Produce /\ UNCHANGED <<stockVars, payVars, sagaVars, orderVars>>
    \/ ConsumeOk /\ UNCHANGED <<stockVars, payVars, sagaVars, orderVars>>
    \/ ConsumeRaise /\ UNCHANGED <<stockVars, payVars, sagaVars, orderVars>>
    \/ ConsumerRestart /\ UNCHANGED <<stockVars, payVars, sagaVars, orderVars>>

SpecConsumer == Init /\ [][ConsumerNext]_vars

\* the consumer loop step by step, and the rebalance listener
RebalanceNext ==
    \/ Produce /\ UNCHANGED <<stockVars, payVars, sagaVars, orderVars>>
    \/ LoopIterate /\ UNCHANGED <<stockVars, payVars, sagaVars, orderVars>>
    \/ LoopAcquire /\ UNCHANGED <<stockVars, payVars, sagaVars, orderVars>>
    \/ LoopCallbackReturns /\ UNCHANGED <<stockVars, payVars, sagaVars, orderVars>>
    \/ LoopCallbackRaises /\ UNCHANGED <<stockVars, payVars, sagaVars, orderVars>>
    \/ LoopCommit /\ UNCHANGED <<stockVars, payVars, sagaVars, orderVars>>
    \/ RevokeCalled /\ UNCHANGED <<stockVars, payVars, sagaVars, orderVars>>
    \/ RevokeAcquire /\ UNCHANGED <<stockVars, payVars, sagaVars, orderVars>>
    \/ RevokeCompletes /\ UNCHANGED <<stockVars, payVars, sagaVars, orderVars>>
    \/ PartitionAssigned /\ UNCHANGED <<stockVars, payVars, sagaVars, orderVars>>

SpecRebalance == Init /\ [][RebalanceNext]_vars

\* the loop keeps running: a message at the position is eventually handled
FairSpecConsumer ==
    /\ SpecConsumer
    /\ WF_vars((ConsumeOk \/ ConsumeRaise) /\ UNCHANGED <<stockVars, payVars, sagaVars, orderVars>>)

\* the order service: its two bridges, the stock service's answer to
\* FindItem, the checkout outcomes and the consumers of the responses
OrderNext ==
    \/ \E o \in BridgeOrders, i \in ItemIds, q \in {1, MaxQty}, c \in Corrs :
          AddItem(o, i, q, c) /\ UNCHANGED <<stockVars, payVars, sagaVars, consumerVars>>
    \/ \E m \in stockReq : FindItemEvent(m) /\ UNCHANGED <<stockVars, payVars, sagaVars, consumerVars>>
    \/ \E o \in BridgeOrders, c \in Corrs : Checkout(o, c) /\ UNCHANGED <<stockVars, payVars, sagaVars, consumerVars>>
    \/ \E c \in Corrs, t \in {EVENT_CHECKOUT_SUCCESS, EVENT_CHECKOUT_FAILED} :
          CheckoutOutcome(c, t) /\ UNCHANGED <<stockVars, payVars, sagaVars, consumerVars>>
    \/ \E w \in Workers, m \in orderTopic :
          OrderReceive(w, m) /\ UNCHANGED <<stockVars, payVars, sagaVars, consumerVars>>
    \/ \E w \in Workers : OrderRead(w) /\ UNCHANGED <<stockVars, payVars, sagaVars, consumerVars>>
    \/ \E w \in Workers : OrderExec(w) /\ UNCHANGED <<stockVars, payVars, sagaVars, consumerVars>>
    \/ \E w \in Workers : OrderCrash(w) /\ UNCHANGED <<stockVars, payVars, sagaVars, consumerVars>>
    \/ \E c \in Corrs : AddItemRespond(c) /\ UNCHANGED <<stockVars, payVars, sagaVars, consumerVars>>
    \/ \E c \in Corrs : AddItemTimeout(c) /\ UNCHANGED <<stockVars, payVars, sagaVars, consumerVars>>
    \/ \E c \in Corrs : CheckoutRespond(c) /\ UNCHANGED <<stockVars, payVars, sagaVars, consumerVars>>
    \/ \E c \in Corrs : CheckoutTimeout(c) /\ UNCHANGED <<stockVars, payVars, sagaVars, consumerVars>>

SpecOrder == Init /\ [][OrderNext]_vars

\* the services as deployed: a checkout request, the orchestrator's
\* consumer (at-least-once delivery) and the bridge's timeout
Next ==
    \/ \E o \in Orders, c \in Corrs : Checkout(o, c) /\ UNCHANGED <<stockVars, payVars, sagaVars, consumerVars>>
    \/ \E m \in orchTopic : HandleResponse(m) /\ UNCHANGED <<stockVars, payVars, consumerVars>>
    \/ \E c \in Corrs : CheckoutTimeout(c) /\ UNCHANGED <<stockVars, payVars, sagaVars, consumerVars>>

Spec == Init /\ [][Next]_vars

\* the consumer loop keeps polling, so a published message is eventually
\* delivered, and the blocking read does time out
FairSpec ==
    /\ Spec
    /\ \A c \in Corrs : WF_vars(CheckoutTimeout(c) /\ UNCHANGED <<stockVars, payVars, sagaVars, consumerVars>>)
    /\ WF_vars(\E m \in orchTopic \ orchAcked :
                  HandleResponse(m) /\ UNCHANGED <<stockVars, payVars, consumerVars>>)

(***************************************************************************)
(* Participant protocol: claims                                            *)
(***************************************************************************)

\* C2: in every reachable state every stock item has stock >= 0 and every
\* user has credit >= 0, whatever the interleaving of the consumers'
\* SubtractStock, AddStock, Pay and Refund handling
NoNegativeResources ==
    /\ \A i \in ItemIds : stockDb[i].stock >= 0
    /\ \A u \in UserIds : userDb[u].credit >= 0

\* a consumer's WATCH was invalidated by a concurrent command that took the
\* item it read down to zero
WatchConflictAtZero ==
    \E w \in Workers :
        /\ stockW[w].pc = "exec" /\ stockW[w].dirty
        /\ \E i \in ItemsOf(stockW[w].ev.items) : stockDb[i].present /\ stockDb[i].stock = 0

\* C3: once the outcome of a command (type, correlation id) is recorded, a
\* further delivery of it does not enter the command handler, leaves the
\* item, user and idempotency keys unchanged and republishes exactly the
\* recorded outcome
IdempotentReplay ==
    [][ /\ (stockLast' # stockLast /\ stockLast'.kind = "replay") =>
              /\ stockDb' = stockDb /\ stockIdem' = stockIdem
              /\ stockLast'.key \in DOMAIN stockIdem
              /\ stockLast'.ev = stockIdem[stockLast'.key]
        /\ (payLast' # payLast /\ payLast'.kind = "replay") =>
              /\ userDb' = userDb /\ payIdem' = payIdem
              /\ payLast'.key \in DOMAIN payIdem
              /\ payLast'.ev = payIdem[payLast'.key]
        /\ \A w \in Workers :
              /\ (stockW[w].pc = "idle" /\ stockW'[w].pc # "idle") =>
                    StockKey(stockW'[w].ev) \notin DOMAIN stockIdem
              /\ (payW[w].pc = "idle" /\ payW'[w].pc # "idle") =>
                    PayKey(payW'[w].ev) \notin DOMAIN payIdem
      ]_vars

\* a Pay was delivered again after it had been applied: the PaymentProcessed
\* with credit = initial - amount was republished and the credit was
\* decremented once
PayReplayed ==
    /\ payLast.kind = "replay"
    /\ payLast.ev.type = EVENT_PAYMENT_SUCCESS
    /\ payLast.ev.user = "u1"
    /\ payLast.ev.credit = InitCredit - payLast.ev.amount
    /\ userDb["u1"].credit = InitCredit - payLast.ev.amount

\* C4: when the business predicate of a command fails, the error outcome
\* that is published is also stored under the idempotency key
\* '<type>:<correlation_id>'
ErrorOutcomeRecorded ==
    /\ stockLast.kind = "error" =>
          /\ stockLast.key \in DOMAIN stockIdem
          /\ stockIdem[stockLast.key] = stockLast.ev
    /\ payLast.kind = "error" =>
          /\ payLast.key \in DOMAIN payIdem
          /\ payIdem[payLast.key] = payLast.ev

\* Saga.compensate walks range(index - 1, -1, -1)
RECURSIVE DownFrom(_)
DownFrom(k) == IF k = 0 THEN <<>> ELSE <<k - 1>> \o DownFrom(k - 1)

\* C5: a saga that aborts at step index k has invoked the compensations
\* k-1, k-2, ..., 0, each exactly once and in that order.
CompensationsInReverseOrder ==
    lastRun.aborting => lastRun.comps = DownFrom(lastRun.k)

\* C6: between two states the step index of a registered saga never
\* decreases, whatever message the orchestrator was handed.
StepIndexMonotonic ==
    [][\A c \in (DOMAIN ongoing_sagas) \cap (DOMAIN ongoing_sagas') :
          ongoing_sagas'[c].index >= ongoing_sagas[c].index]_vars

\* C7: an error event for a registered saga runs the compensations below
\* the current step, invokes the abort action once and removes the saga;
\* once aborted, no forward command is issued for that saga.
ErrorEventAborts ==
    /\ (lastRun.op = "event_handling" /\ lastRun.found /\ lastRun.type \in ErrorEvents)
          => /\ lastRun.comps = DownFrom(lastRun.k)
             /\ lastRun.abort
             /\ lastRun.removed
             /\ lastRun.corr \notin DOMAIN ongoing_sagas
    /\ \A i, j \in 1..Len(orchOut) :
          (i < j /\ orchOut[i].type = AbortEvent /\ orchOut[j].corr = orchOut[i].corr)
             => orchOut[j].type \notin {"SubtractStock", "pay"}

\* the positions of the commit and abort events sent for a correlation id
TerminalEvents(c) ==
    { i \in 1..Len(orchOut) : orchOut[i].corr = c /\ orchOut[i].type \in {CommitEvent, AbortEvent} }

\* C9: the orchestrator sends at most one terminal event, commit or abort,
\* per correlation id.
AtMostOneTerminalEvent ==
    \A c \in Corrs : Cardinality(TerminalEvents(c)) <= 1

\* the types of the events the orchestrator sent for a correlation id
RECURSIVE TypesSentFor(_, _)
TypesSentFor(c, out) ==
    IF out = <<>> THEN <<>>
    ELSE (IF Head(out).corr = c THEN <<Head(out).type>> ELSE <<>>) \o TypesSentFor(c, Tail(out))

\* C8: under fair delivery and without crashes, every saga created for a
\* CheckoutRequested leads to a CheckoutSuccess or CheckoutFailed event for
\* its correlation id.
EverySagaTerminates ==
    \A c \in Corrs :
        (c \in DOMAIN ongoing_sagas) ~>
            (\E i \in 1..Len(orchOut) :
                /\ orchOut[i].corr = c
                /\ orchOut[i].type \in {EVENT_CHECKOUT_SUCCESS, EVENT_CHECKOUT_FAILED})

\* every message published so far has been handled and no consumer is in
\* the middle of a command
Quiescent ==
    /\ orchTopic \subseteq orchAcked
    /\ \A w \in Workers : stockW[w].pc = "idle" /\ payW[w].pc = "idle"

\* the order's items exist with at least the ordered stock / the user has
\* at least the order's total, in the initial stores
HasStock(v) ==
    \A k \in 1..Len(v.items) :
        v.items[k][1] \in {"i1", "i2"} /\ v.items[k][2] <= InitStock
HasCredit(v) == v.user_id = "u1" /\ v.total_cost <= InitCredit

\* the request of c is the only one and all its messages are handled
AloneAndQuiescent(c) ==
    /\ bridge[c].state # "idle"
    /\ \A d \in Corrs \ {c} : bridge[d].state = "idle"
    /\ Quiescent

\* C10: a checkout of an order whose items are in stock and whose user has
\* the credit, alone in the system, has by the time all its messages are
\* handled gone through SubtractStock, Pay and CheckoutSuccess in that
\* order and left the order paid, the credit reduced by the total and each
\* item's stock reduced by its quantity.
HappyPathCompletes ==
    \A c \in Corrs :
        (/\ AloneAndQuiescent(c)
         /\ HasStock(orderDb[bridge[c].order])
         /\ HasCredit(orderDb[bridge[c].order]))
        => LET o == bridge[c].order
               v == orderDb[o]
           IN  /\ TypesSentFor(c, orchOut) =
                     <<EVENT_SUBTRACT_STOCK, EVENT_PAY, EVENT_CHECKOUT_SUCCESS>>
               /\ v.paid
               /\ userDb[v.user_id].credit = InitCredit - v.total_cost
               /\ \A k \in 1..Len(v.items) :
                     stockDb[v.items[k][1]].stock = InitStock - v.items[k][2]

\* C13: an event whose correlation id matches no registered saga is
\* dropped: the saga map is unchanged, nothing is sent and event_handling
\* raises nothing to its caller.
ForeignEventDropped ==
    [][(/\ handled' = handled + 1
        /\ lastRun'.op = "event_handling"
        /\ ~lastRun'.found)
          => /\ ongoing_sagas' = ongoing_sagas
             /\ orchOut' = orchOut
             /\ lastRun'.raised = "none"]_vars

\* C14: a success event of another step than the one the saga awaits
\* aborts the saga like an error event: the compensations below the
\* current step run, the abort action is invoked and the saga is removed.
OutOfOrderEventAborts ==
    (/\ lastRun.op = "event_handling" /\ lastRun.found
     /\ lastRun.type \in CorrectEventSet
     /\ lastRun.forward = <<>> /\ ~lastRun.commit
     /\ lastRun.k < NumTransactions)
        => /\ lastRun.aborting
           /\ lastRun.comps = DownFrom(lastRun.k)
           /\ lastRun.abort
           /\ lastRun.removed
           /\ lastRun.corr \notin DOMAIN ongoing_sagas

\* C11: a checkout whose items are in stock but whose total exceeds the
\* user's credit has, once all its messages are handled, gone through
\* SubtractStock, Pay, AddStock and CheckoutFailed in that order and left
\* the credit and the stock at their initial values and the order unpaid.
InsufficientCreditCompensates ==
    \A c \in Corrs :
        (/\ AloneAndQuiescent(c)
         /\ HasStock(orderDb[bridge[c].order])
         /\ ~HasCredit(orderDb[bridge[c].order]))
        => LET v == orderDb[bridge[c].order]
           IN  /\ TypesSentFor(c, orchOut) =
                     <<EVENT_SUBTRACT_STOCK, EVENT_PAY, EVENT_ADD_STOCK, EVENT_CHECKOUT_FAILED>>
               /\ ~v.paid
               /\ userDb[v.user_id].credit = InitCredit
               /\ \A k \in 1..Len(v.items) : stockDb[v.items[k][1]].stock = InitStock

\* C12: a checkout asking for more than the stock of an item has, once all
\* its messages are handled, gone through SubtractStock and CheckoutFailed
\* only (no Pay, no compensation) and left credit and stock unchanged.
InsufficientStockFails ==
    \A c \in Corrs :
        (/\ AloneAndQuiescent(c)
         /\ ~HasStock(orderDb[bridge[c].order]))
        => LET v == orderDb[bridge[c].order]
           IN  /\ TypesSentFor(c, orchOut) = <<EVENT_SUBTRACT_STOCK, EVENT_CHECKOUT_FAILED>>
               /\ ~v.paid
               /\ userDb[v.user_id].credit = InitCredit
               /\ \A k \in 1..Len(v.items) : stockDb[v.items[k][1]].stock = InitStock

\* C15: the committed offset never passes a message whose handler raised
\* and has not returned normally since.
FailedMessageNotCommitted ==
    \A o \in failed : committed <= o

\* C16: a message whose handler raised is eventually passed to the handler
\* again by the running loop.
FailedMessageRedelivered ==
    \A o \in 0..(MaxMsgs - 1) : (o \in failed) ~> (o \in redelivered)

\* C24: every event the orchestrator publishes for a transaction carries
\* the transaction's correlation id as its message key.
KeyIsCorrelationId ==
    \A k \in 1..Len(orchOut) : orchOut[k].key = orchOut[k].corr

\* C27: a saga that aborts invokes every compensation below its step
\* index even when a compensation raises, then invokes the abort action,
\* so that CheckoutFailed is sent for its correlation id.
SweepSurvivesFailure ==
    lastRun.aborting =>
        /\ lastRun.comps = DownFrom(lastRun.k)
        /\ lastRun.abort
        /\ \E i \in 1..Len(orchOut) :
              orchOut[i].corr = lastRun.corr /\ orchOut[i].type = AbortEvent

(***************************************************************************)
(* Order service: claims                                                   *)
(***************************************************************************)

\* C17: a bridge answers 408 only when its blocking read of
\* order_response:<correlation id> returned no entry, answers 200 or 400
\* only when it returned one, and the step that answers 408 writes no
\* order, stock or user key.
TimeoutReturns408WithoutWrite ==
    [][\A c \in Corrs :
          bridge[c].state = "waiting" =>
             /\ bridge'[c].state = "408" =>
                   /\ stream[c] = <<>>
                   /\ orderDb' = orderDb /\ stockDb' = stockDb /\ userDb' = userDb
             /\ bridge'[c].state \in {"200", "400"} => stream[c] # <<>>]_vars

\* an addItem request and a checkout request both timed out
BothBridgesTimedOut ==
    \E c \in Corrs, d \in Corrs :
        /\ bridge[c].state = "408" /\ bridge[c].op = "addItem"
        /\ bridge[d].state = "408" /\ bridge[d].op = "checkout"

\* C18: when checkout answers 200 the order's paid flag is true in the store
\* at that moment; it answers 400 when the entry read from the stream is
\* CheckoutFailed, and then no CheckoutSuccess was applied for the request.
CheckoutOkImpliesPaid ==
    [][\A c \in Corrs :
          (bridge[c].state = "waiting" /\ bridge[c].op = "checkout") =>
             /\ bridge'[c].state = "200" => orderDb[bridge[c].order].paid
             /\ bridge'[c].state = "400" =>
                   /\ Head(stream[c]).type = EVENT_CHECKOUT_FAILED
                   /\ <<EVENT_CHECKOUT_SUCCESS, c>> \notin DOMAIN orderIdem]_vars

\* C19: an idempotency record is never rewritten, so an outcome event is
\* applied at most once however often it is delivered; the step that
\* creates the record also appends the recorded event to the stream, and
\* the order store and the streams are written by no other step of the
\* consumers (a crash between two store operations leaves all three as they
\* were).
OutcomeAppliedOnce ==
    [][/\ \A k \in DOMAIN orderIdem : k \in DOMAIN orderIdem' /\ orderIdem'[k] = orderIdem[k]
       /\ \A k \in DOMAIN orderIdem' \ DOMAIN orderIdem :
             stream'[k[2]] = Append(stream[k[2]], orderIdem'[k])
       /\ orderDb' # orderDb => DOMAIN orderIdem' # DOMAIN orderIdem
       /\ \A c \in Corrs :
             Len(stream'[c]) > Len(stream[c]) =>
                \E k \in DOMAIN orderIdem' \ DOMAIN orderIdem : k[2] = c]_vars

\* an ItemFound event that was applied to the order is delivered again and
\* skipped
AppliedEventRedelivered ==
    \E w \in Workers :
        /\ orderW[w].last = "skipped"
        /\ orderW[w].ev.type = EVENT_ITEM_FOUND
        /\ OrderIdemKey(orderW[w].ev) \in DOMAIN orderIdem
        /\ orderDb[orderW[w].ev.order].total_cost =
              TotalCost(OrderItems(orderW[w].ev.order))
                 + orderW[w].ev.quantity * orderW[w].ev.price

\* quantity * price of the ItemFound events of the correlation ids in S that
\* were applied to order o
RECURSIVE AppliedCost(_, _)
AppliedCost(S, o) ==
    IF S = {} THEN 0
    ELSE LET c == CHOOSE x \in S : TRUE
             k == <<EVENT_ITEM_FOUND, c>>
         IN  (IF k \in DOMAIN orderIdem /\ orderIdem[k].order = o
                THEN orderIdem[k].quantity * orderIdem[k].price
                ELSE 0)
             + AppliedCost(S \ {c}, o)

\* C20: no update to an order is lost: its total_cost is the initial one
\* plus quantity * price of every ItemFound applied to it, and it is paid
\* once a CheckoutSuccess was applied to it.
NoLostUpdate ==
    \A o \in Orders :
        /\ orderDb[o].total_cost = TotalCost(OrderItems(o)) + AppliedCost(Corrs, o)
        /\ (\E c \in Corrs :
               /\ <<EVENT_CHECKOUT_SUCCESS, c>> \in DOMAIN orderIdem
               /\ orderIdem[<<EVENT_CHECKOUT_SUCCESS, c>>].order = o)
           => orderDb[o].paid

(***************************************************************************)
(* Orchestrator that stops and starts again: claims                        *)
(***************************************************************************)

\* C26: once the orchestrator has lost the saga of a correlation id (it
\* stopped after the saga's SubtractStock, before Pay was issued), no step
\* sends a Pay, a compensation or a terminal event for that correlation id,
\* the waiting bridge can only time out with 408, and no user or order is
\* written.
AbandonedSagaEmitsNothing ==
    [][\A c \in Corrs :
          c \notin DOMAIN ongoing_sagas =>
             /\ \A k \in (Len(orchOut) + 1)..Len(orchOut') : orchOut'[k].corr # c
             /\ bridge[c].state = "waiting" => bridge'[c].state \in {"waiting", "408"}
             /\ userDb' = userDb /\ orderDb' = orderDb]_vars

\* the orchestrator stopped after SubtractStock was sent, the StockSubtracted
\* delivered afterwards found no saga, and the bridge timed out
StockSubtractedAfterCrash ==
    \E c \in Corrs :
        /\ lastRun.op = "event_handling"
        /\ lastRun.type = EVENT_STOCK_SUBTRACTED
        /\ lastRun.corr = c
        /\ ~lastRun.found
        /\ lastRun.raised = "RuntimeWarning"
        /\ c \notin DOMAIN ongoing_sagas
        /\ TypesSentFor(c, orchOut) = <<"SubtractStock">>
        /\ bridge[c].state = "408"
        /\ ~orderDb[bridge[c].order].paid
        /\ userDb[orderDb[bridge[c].order].user_id].credit = InitCredit

(***************************************************************************)
(* Participants behind a partitioned topic: claims                         *)
(***************************************************************************)

\* the quantity the item list asks for item i
RECURSIVE Amount(_, _)
Amount(items, i) ==
    IF items = <<>> THEN 0
    ELSE (IF Head(items)[1] = i THEN Head(items)[2] ELSE 0) + Amount(Tail(items), i)

RECURSIVE CreditDelta(_, _)
CreditDelta(K, u) ==
    IF K = {} THEN 0
    ELSE LET k == CHOOSE x \in K : TRUE
             ev == payIdem[k]
         IN  (IF ev.user # u THEN 0
              ELSE IF ev.type = EVENT_PAYMENT_SUCCESS THEN 0 - ev.amount
              ELSE IF ev.type = EVENT_REFUND_SUCCESS THEN ev.amount
              ELSE 0)
             + CreditDelta(K \ {k}, u)

\* the change of item i's stock by the commands recorded under the keys K
RECURSIVE StockDelta(_, _)
StockDelta(K, i) ==
    IF K = {} THEN 0
    ELSE LET k == CHOOSE x \in K : TRUE
             ev == stockIdem[k]
         IN  (IF ev.type = EVENT_STOCK_SUBTRACTED THEN 0 - Amount(ev.items, i)
              ELSE IF ev.type = EVENT_STOCK_COMPENSATED THEN Amount(ev.items, i)
              ELSE 0)
             + StockDelta(K \ {k}, i)

\* C22: whatever the interleaving of the consumers and their WATCH
\* conflicts, the value of every user and item key is its initial value
\* with every command whose success is recorded applied exactly once.
EachCommandAppliedOnce ==
    /\ \A u \in UserIds :
          userDb[u].present => userDb[u].credit = InitCredit + CreditDelta(DOMAIN payIdem, u)
    /\ \A i \in ItemIds :
          stockDb[i].present => stockDb[i].stock = InitStock + StockDelta(DOMAIN stockIdem, i)

\* a consumer lost a WATCH conflict to a command of another transaction,
\* read the user again and evaluated its command against the winner's write
LoserReadAgain ==
    \E w \in Workers :
        /\ payW[w].pc = "exec" /\ payW[w].tries = 2 /\ ~payW[w].dirty
        /\ \E k \in DOMAIN payIdem :
              /\ k[2] # payW[w].ev.corr
              /\ payIdem[k].type = EVENT_PAYMENT_SUCCESS
              /\ payIdem[k].user = payW[w].ev.user
              /\ payW[w].ev.type = EVENT_PAY
              /\ payW[w].new = InitCredit - payIdem[k].amount - payW[w].ev.amount

\* C25: when a Pay and the Refund of the same transaction, user and amount
\* are the only commands applied, the user's credit is its initial value;
\* when a SubtractStock and the AddStock of the same transaction and items
\* are the only commands applied, every item's stock is its initial value.
CompensationInverts ==
    \A c \in Corrs :
        /\ (/\ DOMAIN payIdem = {<<EVENT_PAY, c>>, <<EVENT_REFUND, c>>}
            /\ payIdem[<<EVENT_PAY, c>>].type = EVENT_PAYMENT_SUCCESS
            /\ payIdem[<<EVENT_REFUND, c>>].type = EVENT_REFUND_SUCCESS
            /\ payIdem[<<EVENT_PAY, c>>].user = payIdem[<<EVENT_REFUND, c>>].user
            /\ payIdem[<<EVENT_PAY, c>>].amount = payIdem[<<EVENT_REFUND, c>>].amount)
           => userDb[payIdem[<<EVENT_PAY, c>>].user].credit = InitCredit
        /\ (/\ DOMAIN stockIdem = {<<EVENT_SUBTRACT_STOCK, c>>, <<EVENT_ADD_STOCK, c>>}
            /\ stockIdem[<<EVENT_SUBTRACT_STOCK, c>>].type = EVENT_STOCK_SUBTRACTED
            /\ stockIdem[<<EVENT_ADD_STOCK, c>>].type = EVENT_STOCK_COMPENSATED
            /\ stockIdem[<<EVENT_SUBTRACT_STOCK, c>>].items = stockIdem[<<EVENT_ADD_STOCK, c>>].items)
           => \A i \in ItemsOf(stockIdem[<<EVENT_ADD_STOCK, c>>].items) :
                 stockDb[i].stock = InitStock

\* a Pay was applied and then the Refund of the same transaction, user and
\* amount: the RefundProcessed just published carries the initial credit
PayThenRefundApplied ==
    /\ payLast.kind = "applied"
    /\ payLast.ev.type = EVENT_REFUND_SUCCESS
    /\ <<EVENT_PAY, payLast.ev.corr>> \in DOMAIN payIdem
    /\ LET pay == payIdem[<<EVENT_PAY, payLast.ev.corr>>]
       IN  /\ pay.type = EVENT_PAYMENT_SUCCESS
           /\ pay.user = payLast.ev.user /\ pay.amount = payLast.ev.amount
           /\ pay.credit = InitCredit - pay.amount
           /\ userDb[pay.user].credit = InitCredit

(***************************************************************************)
(* Participants with failing store calls: claims                           *)
(***************************************************************************)

\* C23: a command handler goes round its retry loop at most max_retries
\* times, and an error outcome it publishes because of store errors is
\* recorded under the idempotency key of the command.
RetriesBounded ==
    /\ \A w \in Workers : stockW[w].tries <= max_retries /\ payW[w].tries <= max_retries
    /\ stockLast.kind = "storeerror" =>
          /\ stockLast.key \in DOMAIN stockIdem
          /\ stockIdem[stockLast.key] = stockLast.ev
    /\ (payLast.kind = "error" /\ payLast.ev.error = DB_ERROR_STR) =>
          /\ payLast.key \in DOMAIN payIdem
          /\ payIdem[payLast.key] = payLast.ev

\* C28: the paid flag of an order becomes true only in the step that
\* applies a CheckoutSuccess for that order, and once true it stays true.
PaidOnlyRises ==
    [][\A o \in Orders :
          /\ orderDb[o].paid => orderDb'[o].paid
          /\ (~orderDb[o].paid /\ orderDb'[o].paid) =>
                \E w \in Workers :
                   /\ orderW[w].pc = "read" /\ orderW'[w].pc = "idle"
                   /\ orderW[w].ev.type = EVENT_CHECKOUT_SUCCESS
                   /\ orderW[w].ev.order = o]_vars

(***************************************************************************)
(* Rebalance barrier: claims                                               *)
(***************************************************************************)

CommandEndsWithTypedOutcome ==
    /\ stockLast.kind # "none" =>
          /\ stockLast.kind # "raised"
          /\ stockLast.ev.type \in {EVENT_STOCK_SUBTRACTED, EVENT_STOCK_ERROR,
                                     EVENT_STOCK_COMPENSATED, EVENT_STOCK_COMPENSATION_FAILED}
          /\ (stockLast.key[1] = EVENT_ADD_STOCK /\ stockLast.kind \notin {"applied", "replay"})
                => stockLast.ev.type = EVENT_STOCK_COMPENSATION_FAILED
    /\ payLast.kind # "none" =>
          /\ payLast.ev.type \in {EVENT_PAYMENT_SUCCESS, EVENT_PAYMENT_ERROR,
                                   EVENT_REFUND_SUCCESS, EVENT_REFUND_ERROR}
          /\ (payLast.key[1] = EVENT_REFUND /\ payLast.kind = "error")
                => payLast.ev.type = EVENT_REFUND_ERROR

(***************************************************************************)
(* Saga engine: claims about the expected success event                    *)
(***************************************************************************)

\* event_handling has just run for correlation id c, whose saga was at step
\* index k and expected exactly the event type that was delivered
ExpectedSuccessHandled(c, k) ==
    /\ handled' = handled + 1
    /\ lastRun'.op = "event_handling"
    /\ lastRun'.corr = c
    /\ c \in DOMAIN ongoing_sagas
    /\ ongoing_sagas[c].index = k
    /\ lastRun'.type = CorrectEvents[k + 1]

\* C31: handling the success event expected for the current step raises the
\* step index by exactly one and invokes no compensation; when the saga is
\* not finished exactly the command of the new step is issued and the saga
\* stays registered with the new index, and when it is finished the commit
\* action is invoked once and the saga is removed.
ExpectedSuccessAdvances ==
    [][\A c \in Corrs, k \in 0..(NumTransactions - 1) :
          ExpectedSuccessHandled(c, k) =>
             /\ ~lastRun'.aborting
             /\ lastRun'.comps = <<>>
             /\ IF k + 1 < NumTransactions
                   THEN /\ c \in DOMAIN ongoing_sagas'
                        /\ ongoing_sagas'[c].index = k + 1
                        /\ orchOut' = orchOut \o <<[type |-> TransactionCommand(k + 1), corr |-> c,
                                                     key |-> MessageKey(TransactionCommand(k + 1))]>>
                   ELSE /\ c \notin DOMAIN ongoing_sagas'
                        /\ orchOut' = orchOut \o <<[type |-> CommitEvent, corr |-> c,
                                                     key |-> MessageKey(CommitEvent)]>>]_vars

\* C32: when issuing the forward command of step k >= 1 fails after the
\* success event of step k-1 was consumed, exactly the compensations
\* k-1, ..., 0 run, the abort action is invoked, the saga is removed and
\* SagaError is raised.
ForwardFailureCompensates ==
    (/\ lastRun.op = "event_handling"
     /\ lastRun.aborting
     /\ lastRun.k >= 1
     /\ lastRun.forward = <<lastRun.k>>)
        => /\ lastRun.comps = DownFrom(lastRun.k)
           /\ lastRun.abort
           /\ lastRun.removed
           /\ lastRun.raised = "SagaError"

(***************************************************************************)
(* Participants: the domain write and its record                           *)
(***************************************************************************)

\* the keys under which a success outcome is recorded by this step
NewStockSuccess ==
    { k \in (DOMAIN stockIdem') \ (DOMAIN stockIdem) :
         stockIdem'[k].type \in {EVENT_STOCK_SUBTRACTED, EVENT_STOCK_COMPENSATED} }

NewPaySuccess ==
    { k \in (DOMAIN payIdem') \ (DOMAIN payIdem) :
         payIdem'[k].type \in {EVENT_PAYMENT_SUCCESS, EVENT_REFUND_SUCCESS} }

RECURSIVE AppliedQuantity(_, _, _)
AppliedQuantity(S, o, i) ==
    IF S = {} THEN 0
    ELSE LET c == CHOOSE x \in S : TRUE
             k == <<EVENT_ITEM_FOUND, c>>
         IN  (IF k \in DOMAIN orderIdem /\ orderIdem[k].order = o /\ orderIdem[k].item = i
                THEN orderIdem[k].quantity
                ELSE 0)
             + AppliedQuantity(S \ {c}, o, i)

\* C34: after the ItemFound events applied to an order, every item id
\* appears at most once in its items, with the quantity the order started
\* with plus the quantities of the applied events for that item, and
\* total_cost is the initial one plus quantity * price of the applied events.
ItemsMerged ==
    \A o \in Orders :
        LET items == orderDb[o].items
        IN  /\ \A a, b \in 1..Len(items) : items[a][1] = items[b][1] => a = b
            /\ \A i \in ItemIds :
                   Amount(items, i) = Amount(OrderItems(o), i) + AppliedQuantity(Corrs, o, i)
            /\ orderDb[o].total_cost = TotalCost(OrderItems(o)) + AppliedCost(Corrs, o)

(***************************************************************************)
(* Checkout of an order that is paid already                               *)
(***************************************************************************)

AbortedAndApplied(c) ==
    /\ \E k \in 1..Len(orchOut) : orchOut[k].type = AbortEvent /\ orchOut[k].corr = c
    /\ <<EVENT_SUBTRACT_STOCK, c>> \in DOMAIN stockIdem

OneOutcomePerHandling ==
    [][/\ \A w \in Workers :
             (stockW[w].pc # "idle" /\ stockW'[w] # stockW[w]) =>
                 /\ stockLast' # stockLast => stockW'[w].pc = "idle"
                 /\ stockW[w].ev.error # "" => stockDb' = stockDb
       /\ \A w \in Workers :
             (payW[w].pc # "idle" /\ payW'[w] # payW[w]) =>
                 /\ payLast' # payLast => payW'[w].pc = "idle"
                 /\ payW[w].ev.error # "" => userDb' = userDb]_vars

(***************************************************************************)
(* Order service: the terminal outcomes of one checkout                    *)
(***************************************************************************)

\* an outcome of the checkout with correlation id c arrives on
\* orchestrator-responses, whatever arrived for c before
CheckoutOutcomeAny(c, t) ==
    /\ bridge[c].state # "idle"
    /\ bridge[c].op = "checkout"
    /\ orderTopic' = orderTopic \cup
          {[NoOrderEvent EXCEPT !.type = t, !.corr = c, !.order = bridge[c].order]}
    /\ UNCHANGED <<orderDb, bridge, orchTopic, orchAcked, stockReq, orderIdem, stream, orderW>>

\* the checkout bridge and the consumer of the checkout outcomes
OutcomesNext ==
    \/ \E o \in BridgeOrders, c \in Corrs : Checkout(o, c) /\ UNCHANGED <<stockVars, payVars, sagaVars, consumerVars>>
    \/ \E c \in Corrs, t \in {EVENT_CHECKOUT_SUCCESS, EVENT_CHECKOUT_FAILED} :
          CheckoutOutcomeAny(c, t) /\ UNCHANGED <<stockVars, payVars, sagaVars, consumerVars>>
    \/ \E w \in Workers, m \in orderTopic :
          OrderReceive(w, m) /\ UNCHANGED <<stockVars, payVars, sagaVars, consumerVars>>
    \/ \E w \in Workers : OrderRead(w) /\ UNCHANGED <<stockVars, payVars, sagaVars, consumerVars>>
    \/ \E w \in Workers : OrderExec(w) /\ UNCHANGED <<stockVars, payVars, sagaVars, consumerVars>>
    \/ \E c \in Corrs : CheckoutRespond(c) /\ UNCHANGED <<stockVars, payVars, sagaVars, consumerVars>>
    \/ \E c \in Corrs : CheckoutTimeout(c) /\ UNCHANGED <<stockVars, payVars, sagaVars, consumerVars>>

SpecOutcomes == Init /\ [][OutcomesNext]_vars

NoExpiryOnItems ==
    \A i \in ItemIds : stockDb[i].present => ~ stockDb[i].ttl

(***************************************************************************)
(* Saga engine: the sagas kept in ongoing_sagas                            *)
(***************************************************************************)

\* C40: between two handled events every saga in ongoing_sagas is
\* non-terminal: its step index is at least 0 and less than the number of
\* steps, a saga whose commit or abort action was run by the last handled
\* event is no longer in the map, and is_expected_event never indexes past
\* the last step.
SagasNonTerminal ==
    /\ \A c \in DOMAIN ongoing_sagas :
          ongoing_sagas[c].index >= 0 /\ ongoing_sagas[c].index < NumTransactions
    /\ (lastRun.op = "event_handling" /\ (lastRun.commit \/ lastRun.abort))
          => lastRun.corr \notin DOMAIN ongoing_sagas
    /\ lastRun.raised # "IndexError"

====
